---------------------------- MODULE Spec2Model ----------------------------
(***************************************************************************)
(* A model of the option resolution engine of src/src/parser.ts (class     *)
(* Parser): registration of option definitions, the scan of the token      *)
(* list, the environment/default pass, type coercion, the validator and    *)
(* handler chains, and the error map.                                      *)
(*                                                                         *)
(* JavaScript strings are sequences of one-character strings, so that the  *)
(* regular-expression splits, String.includes, toLocaleLowerCase and       *)
(* Number.parseInt are computed the way the code computes them.            *)
(* JavaScript values are records [t |-> typeof-tag, v |-> payload].        *)
(***************************************************************************)
EXTENDS Integers, Sequences, FiniteSets, TLC

(***************************************************************************)
(* Bounds of the model.                                                    *)
(***************************************************************************)
\* the longest token list (parserOptions.argv) the constructor is given
MaxArgs == 2
\* the most addOption calls made on one Parser
MaxAdds == 2

(***************************************************************************)
(* JavaScript values.                                                      *)
(***************************************************************************)
Undefined == [t |-> "undefined", v |-> 0]
StrV(s) == [t |-> "string", v |-> s]
NumV(n) == [t |-> "number", v |-> n]
BoolV(b) == [t |-> "boolean", v |-> b]
\* an array; its elements are values themselves (an element may be undefined)
ArrV(l) == [t |-> "object", v |-> l]

\* ToBoolean, as used by `if (x)`, `x && y`, `x ||= y`
Truthy(x) ==
  CASE x.t = "undefined" -> FALSE
    [] x.t = "string" -> Len(x.v) > 0
    [] x.t = "number" -> x.v # 0
    [] x.t = "boolean" -> x.v
    [] OTHER -> TRUE

\* Array.prototype.push on a value that is an array
Push(arr, x) == ArrV(Append(arr.v, x))

(***************************************************************************)
(* Objects used as maps (Record<string, X>): functions over string keys.   *)
(***************************************************************************)
EmptyMap == << >>
HasOwn(m, k) == k \in DOMAIN m
Put(m, k, x) == [y \in (DOMAIN m) \cup {k} |-> IF y = k THEN x ELSE m[y]]
\* m[k], undefined when k is no own key
Get(m, k) == IF k \in DOMAIN m THEN m[k] ELSE Undefined

(***************************************************************************)
(* Strings.                                                                *)
(***************************************************************************)
EqChar == "="

\* the index of the first "=" of s, 0 when there is none
FirstEq(s) ==
  IF \E i \in 1..Len(s) : s[i] = EqChar
  THEN CHOOSE i \in 1..Len(s) : s[i] = EqChar /\ \A j \in 1..(i - 1) : s[j] # EqChar
  ELSE 0

\* the index of the last "=" of s, 0 when there is none
LastEq(s) ==
  IF \E i \in 1..Len(s) : s[i] = EqChar
  THEN CHOOSE i \in 1..Len(s) : s[i] = EqChar /\ \A j \in (i + 1)..Len(s) : s[j] # EqChar
  ELSE 0

\* arg.replace(/=.*/, ''): the first "=" and all that follows it are removed
StripFromFirstEq(s) == IF FirstEq(s) = 0 THEN s ELSE SubSeq(s, 1, FirstEq(s) - 1)

\* arg.replace(/.*=/, ''): the match is greedy, all up to the last "=" is removed
StripToLastEq(s) == IF LastEq(s) = 0 THEN s ELSE SubSeq(s, LastEq(s) + 1, Len(s))

\* String.prototype.includes: sub occurs in s as a contiguous run
StringIncludes(s, sub) ==
  \E i \in 0..(Len(s) - Len(sub)) : SubSeq(s, i + 1, i + Len(sub)) = sub

\* Array.prototype.includes on an array of strings
ArrayIncludes(l, s) == \E i \in 1..Len(l) : l[i] = s

UpperCase == <<"A","B","C","D","E","F","G","H","I","J","K","L","M",
               "N","O","P","Q","R","S","T","U","V","W","X","Y","Z">>
LowerCase == <<"a","b","c","d","e","f","g","h","i","j","k","l","m",
               "n","o","p","q","r","s","t","u","v","w","x","y","z">>

LowerChar(c) ==
  IF \E i \in 1..Len(UpperCase) : UpperCase[i] = c
  THEN LowerCase[CHOOSE i \in 1..Len(UpperCase) : UpperCase[i] = c]
  ELSE c

\* String.prototype.toLocaleLowerCase
toLocaleLowerCase(s) == [i \in 1..Len(s) |-> LowerChar(s[i])]

(***************************************************************************)
(* Number.parseInt(string) with no radix argument: leading blanks and one  *)
(* sign are skipped, a "0x"/"0X" prefix selects base 16, and the longest   *)
(* prefix of digits is converted; no digit at all gives NaN.               *)
(***************************************************************************)
HexDigits == <<"0","1","2","3","4","5","6","7","8","9","a","b","c","d","e","f">>
HexUpper == <<"0","1","2","3","4","5","6","7","8","9","A","B","C","D","E","F">>

\* the value of digit c in the given radix, -1 when c is no digit of it
DigitValue(c, radix) ==
  IF \E i \in 1..radix : HexDigits[i] = c \/ HexUpper[i] = c
  THEN (CHOOSE i \in 1..radix : HexDigits[i] = c \/ HexUpper[i] = c) - 1
  ELSE -1

\* the number of leading characters of s that are digits of the radix
RECURSIVE DigitRun(_, _)
DigitRun(s, radix) ==
  IF Len(s) = 0 \/ DigitValue(Head(s), radix) < 0 THEN 0
  ELSE 1 + DigitRun(Tail(s), radix)

\* the number a string of digits denotes
RECURSIVE DigitsToNumber(_, _)
DigitsToNumber(s, radix) ==
  IF Len(s) = 0 THEN 0
  ELSE DigitsToNumber(SubSeq(s, 1, Len(s) - 1), radix) * radix
         + DigitValue(s[Len(s)], radix)

RECURSIVE SkipBlanks(_)
SkipBlanks(s) == IF Len(s) > 0 /\ Head(s) = " " THEN SkipBlanks(Tail(s)) ELSE s

NaN == [nan |-> TRUE, n |-> 0]

parseIntString(str) ==
  LET s0 == SkipBlanks(str)
      neg == Len(s0) > 0 /\ Head(s0) = "-"
      s1 == IF Len(s0) > 0 /\ Head(s0) \in {"-", "+"} THEN Tail(s0) ELSE s0
      hex == Len(s1) >= 2 /\ s1[1] = "0" /\ s1[2] \in {"x", "X"}
      s2 == IF hex THEN SubSeq(s1, 3, Len(s1)) ELSE s1
      radix == IF hex THEN 16 ELSE 10
      run == DigitRun(s2, radix)
      mag == DigitsToNumber(SubSeq(s2, 1, run), radix)
  IN IF run = 0 THEN NaN
     ELSE [nan |-> FALSE, n |-> IF neg THEN 0 - mag ELSE mag]

\* Number.parseInt of any value: the value is converted to a string first.  An
\* integral number converts to its own numeral; undefined, a boolean and the
\* empty array convert to text with no leading digit; an array converts to
\* its elements joined by ",", so its first element decides.
RECURSIVE parseInt(_)
parseInt(x) ==
  CASE x.t = "string" -> parseIntString(x.v)
    [] x.t = "number" -> [nan |-> FALSE, n |-> x.v]
    [] x.t = "object" /\ Len(x.v) > 0 /\ x.v[1].t \in {"string", "number"} ->
         parseInt(x.v[1])
    [] OTHER -> NaN

(***************************************************************************)
(* Option definitions.  OptionsDef is what the caller passes to addOption, *)
(* NormalizedOptionsDef what normalizeOptionDef stores.  An absent field   *)
(* of an OptionsDef is "absent" (arg, type) or Undefined (env, default).   *)
(***************************************************************************)
\* the two reserved argument modes, as the strings the code compares with
positional == <<"p","o","s","i","t","i","o","n","a","l">>
doubleDash == <<"-","-">>

ArgAbsent == [kind |-> "absent", list |-> << >>, str |-> << >>]
ArgArray(l) == [kind |-> "array", list |-> l, str |-> << >>]
ArgString(s) == [kind |-> "string", list |-> << >>, str |-> s]

\* optionDef.arg === 'positional', optionDef.arg === '--'
ArgIs(arg, s) == arg.kind = "string" /\ arg.str = s

\* optionDef.arg?.includes(argSwitch): Array.prototype.includes for a switch
\* list, String.prototype.includes for an argument mode given as a string
ArgIncludes(arg, argSwitch) ==
  CASE arg.kind = "array" -> ArrayIncludes(arg.list, argSwitch)
    [] arg.kind = "string" -> StringIncludes(arg.str, argSwitch)
    [] OTHER -> FALSE

OptionsDef(name, arg, env, default, type, required, handler, validator) ==
  [name |-> name, arg |-> arg, env |-> env, default |-> default,
   type |-> type, required |-> required,
   handler |-> handler, validator |-> validator]

\* error messages: the template used and the strings it interpolates
Message(kind, names, env, val) ==
  [kind |-> kind, names |-> names, env |-> env, val |-> val]
Plain(kind) == Message(kind, << >>, << >>, Undefined)

\* the property key a value converts to: a string is itself, the empty array
\* (the default of `env`) is the empty string
PropertyKey(x) == IF x.t = "string" THEN x.v ELSE << >>

\* argTypeName(def.type || (arg is '--' or 'positional' ? listArg : stringArg))
argTypeOf(def) ==
  IF def.type # "absent" THEN def.type
  ELSE IF def.arg.kind = "string" /\ def.arg.str \in {doubleDash, positional}
       THEN "list" ELSE "string"

\* argTypeName(name) returns the name when it is one of the four type tags
\* and throws for any other; an absent type is replaced by a tag before the call
knownType(def) == def.type \in {"absent", "boolean", "integer", "string", "list"}

\* the checks normalizeOptionDef makes before it calls argTypeName
earlyChecks(def) ==
  (IF Len(def.name) = 0 THEN <<"Option definition must have a name.">> ELSE << >>)
  \o (IF def.arg.kind = "string" /\ def.arg.str # positional /\ def.arg.str # doubleDash
      THEN <<"Option definition must have a valid argument.">> ELSE << >>)
  \o (IF def.required /\ Truthy(def.default)
      THEN <<"Required option cannot have a default.">> ELSE << >>)
  \o (IF ArgIs(def.arg, positional) /\ Truthy(def.env)
      THEN <<"Positional arguments cannot have an environment variable.">> ELSE << >>)

\* the checks of normalizeOptionDef in the order the code makes them: the
\* messages err() is called with, each overwriting the one before it
defChecks(def, truthy, falsey) ==
  LET d == def.default
      first ==
        earlyChecks(def)
        \o (IF ArgIs(def.arg, positional) /\ argTypeOf(def) # "list"
            THEN <<"Positional arguments must be lists.">> ELSE << >>)
        \o (IF ArgIs(def.arg, doubleDash) /\ Truthy(def.env)
            THEN <<"Double-dash arguments cannot have an environment variable.">> ELSE << >>)
        \o (IF ArgIs(def.arg, doubleDash) /\ argTypeOf(def) # "list"
            THEN <<"Double-dash arguments must be lists.">> ELSE << >>)
      ofDefault ==
        IF ~Truthy(d) THEN << >>
        ELSE CASE def.type = "boolean" ->
                    IF d.t # "boolean" /\ d.t = "string"
                       /\ ~(ArrayIncludes(truthy, d.v) \/ ArrayIncludes(falsey, d.v))
                    THEN <<"Boolean options must have a boolean default.">> ELSE << >>
               [] def.type = "integer" ->
                    IF d.t # "number" /\ d.t = "string"
                       /\ (parseInt(d).nan \/ parseInt(d).n = 0)
                    THEN <<"Integer options must have a number default.">> ELSE << >>
               [] def.type = "list" ->
                    IF d.t = "string" THEN << >>
                    ELSE IF d.t = "object"
                         THEN IF \A i \in 1..Len(d.v) : d.v[i].t = "string" THEN << >>
                              ELSE <<"List options default array members must all be string">>
                         ELSE <<"List options must have a string or a string array default.">>
               [] def.type = "string" ->
                    IF d.t # "string"
                    THEN <<"String options must have a string default.">> ELSE << >>
               [] OTHER -> << >>
  IN first \o ofDefault

\* the key err() files a message under: def.name || '_no_name'
NoNameKey == <<"_","n","o","_","n","a","m","e">>
errKey(def) == IF Len(def.name) = 0 THEN NoNameKey ELSE def.name

\* the NormalizedOptionsDef that normalizeOptionDef returns: the defaults of
\* Object.assign overwritten by the fields the definition has.  A list
\* default given as a string is wrapped in an array before the assign.
normalizedDef(def) ==
  [name |-> def.name,
   arg |-> IF def.arg.kind = "absent" THEN ArgArray(<< >>) ELSE def.arg,
   env |-> IF def.env.t = "undefined" THEN ArrV(<< >>) ELSE def.env,
   default |-> IF def.type = "list" /\ Truthy(def.default) /\ def.default.t = "string"
               THEN ArrV(<<def.default>>) ELSE def.default,
   type |-> argTypeOf(def),
   required |-> def.required,
   handler |-> def.handler,
   validator |-> def.validator]

(***************************************************************************)
(* The state of one Parser.                                                *)
(***************************************************************************)
VARIABLES
  parserOptions,        \* [argv, env, truthy, falsey]
  optionsDef,           \* the definitions the constructor was given
  lastCycle,            \* what the caller kept of the parse() before, when
                        \* parse() is called again with no addOption since
  frozen,               \* which of the objects this.values, the arrays in it
                        \* and this.errorValues Object.freeze was applied to
  held,                 \* the maps a caller got from `args` and `errors` and
                        \* still holds
  validatorCalls,       \* this cycle: name -> per chain entry, the values its
                        \* validators were called with, in call order
  handlerCalls,         \* this cycle: name -> per chain entry, the values its
                        \* handlers were called with, in call order
  options,              \* this.options: name -> chain of NormalizedOptionsDef
  optionKeys,           \* Object.keys(this.options), in insertion order
  optionSequence,       \* this.optionSequence
  normalizationErrors,  \* [null, m]: null, or the map of definition errors
  errorValues,          \* [null, m]: null, or the error map of the last cycle
  isParsed,             \* this.isParsed
  hasNewOptions,        \* this.hasNewOptions
  normalizedValues,     \* [null, m]: null, or the raw value map
  values,               \* this.values: name -> final value
  pc,                   \* where parse() stands; "idle" between the calls
  argIdx,               \* the index variable of normalizeOptionValues (0-based)
  returned              \* what the last completed parse() returned; "threw"
                        \* when the last parse() or addOption threw

vars == <<parserOptions, optionsDef, lastCycle, frozen, held, validatorCalls, handlerCalls, options, optionKeys, optionSequence, normalizationErrors,
          errorValues, isParsed, hasNewOptions, normalizedValues, values, pc,
          argIdx, returned>>

Null == [null |-> TRUE, m |-> EmptyMap]
Obj(m) == [null |-> FALSE, m |-> m]

\* `this.errorValues ||= {}; this.errorValues[k] = msg`
SetIn(e, k, msg) == Obj(Put(e.m, k, msg))

\* hasError(optionName), hasErrors() on a given error map
hasErrorIn(e, optionName) == ~e.null /\ HasOwn(e.m, optionName)
hasErrorsIn(e) == ~e.null /\ DOMAIN e.m # {}

hasError(optionName) == hasErrorIn(errorValues, optionName)
hasErrors == hasErrorsIn(errorValues)

(***************************************************************************)
(* The objects a caller holds.  The getters `args` and `errors` return the *)
(* objects this.values and this.errorValues themselves, so what a caller   *)
(* holds changes with every write the object accepts for as long as the    *)
(* Parser writes to that object.                                           *)
(***************************************************************************)
\* objects just created: none is frozen
unfrozen == [values |-> FALSE, members |-> FALSE, errorValues |-> FALSE]

\* the value map and the error map are frozen, the arrays in the value map
\* are left as they are
freezeMapsOnly == [values |-> TRUE, members |-> FALSE, errorValues |-> TRUE]

\* freezeValues(): every object in the value map, the value map and the error
\* map are frozen
freezeValues == [values |-> TRUE, members |-> TRUE, errorValues |-> TRUE]

\* the caller holds no map
NoMaps ==
  [has |-> FALSE, live |-> FALSE, args |-> EmptyMap, errors |-> Null,
   frozen |-> unfrozen, wrote |-> FALSE]

\* `this.errorValues = ...; this.values = {}`: the Parser goes on with new
\* objects, the ones a caller holds are its own no more
newMaps(h) == [h EXCEPT !.live = FALSE]

\* the held maps after the Parser has written vals and e to its own maps: a
\* write reaches the held maps when they are the Parser's and not frozen
through(h, vals, e) ==
  IF ~h.has \/ ~h.live THEN h
  ELSE [h EXCEPT !.args = IF h.frozen.values THEN @ ELSE vals,
                 !.errors = IF h.errors.null \/ h.frozen.errorValues THEN @ ELSE e]

\* the held maps after the Parser has frozen its own
frozenWith(h, f) == IF h.has /\ h.live THEN [h EXCEPT !.frozen = f] ELSE h

(***************************************************************************)
(* addOption(option): the chain of the name is created if need be, the     *)
(* normalized definition is appended to it, the name is appended to the    *)
(* sequence, and reparseIfNecessary() runs parse() when isParsed is set.   *)
(***************************************************************************)
\* this.options[name] || []
Get2(m, k) == IF k \in DOMAIN m THEN m[k] ELSE << >>

RECURSIVE fileAll(_, _, _)
fileAll(e, k, msgs) ==
  IF Len(msgs) = 0 THEN e ELSE fileAll(SetIn(e, k, Plain(Head(msgs))), k, Tail(msgs))

\* this.isParsed && this.hasNewOptions, with hasNewOptions just set
reparseNeeded == isParsed

\* the registry: the four fields addOption writes
registry ==
  [options |-> options, optionKeys |-> optionKeys,
   normalizationErrors |-> normalizationErrors, optionSequence |-> optionSequence]

emptyRegistry ==
  [options |-> EmptyMap, optionKeys |-> << >>,
   normalizationErrors |-> Null, optionSequence |-> << >>]

\* only the definition errors of the definition added last are kept
registerForgetting(r, def) ==
  [options |-> Put(r.options, def.name,
                   Get2(r.options, def.name) \o <<normalizedDef(def)>>),
   optionKeys |-> IF HasOwn(r.options, def.name) THEN r.optionKeys
                  ELSE Append(r.optionKeys, def.name),
   normalizationErrors |->
     fileAll(Null, errKey(def),
             defChecks(def, parserOptions.truthy, parserOptions.falsey)),
   optionSequence |-> Append(r.optionSequence, def.name)]

\* the registry after addOption(def)
register(r, def) ==
  [options |-> Put(r.options, def.name,
                   Get2(r.options, def.name) \o <<normalizedDef(def)>>),
   optionKeys |-> IF HasOwn(r.options, def.name) THEN r.optionKeys
                  ELSE Append(r.optionKeys, def.name),
   normalizationErrors |->
     fileAll(r.normalizationErrors, errKey(def),
             defChecks(def, parserOptions.truthy, parserOptions.falsey)),
   optionSequence |-> Append(r.optionSequence, def.name)]

\* the registry after an addOption(def) in which argTypeName threw: the chain
\* of the name was created, the checks made before the call are filed, and
\* nothing was appended to the chain or to the sequence
registerThrowing(r, def) ==
  [options |-> Put(r.options, def.name, Get2(r.options, def.name)),
   optionKeys |-> IF HasOwn(r.options, def.name) THEN r.optionKeys
                  ELSE Append(r.optionKeys, def.name),
   normalizationErrors |-> fileAll(r.normalizationErrors, errKey(def), earlyChecks(def)),
   optionSequence |-> r.optionSequence]

\* addOptions(...options): addOption for each, in order
RECURSIVE addOptions(_, _)
addOptions(r, defs) ==
  IF Len(defs) = 0 THEN r ELSE addOptions(register(r, Head(defs)), Tail(defs))

addOption(def) ==
  /\ pc = "idle"
  /\ Len(optionSequence) < Len(optionsDef) + MaxAdds
  /\ LET r == IF knownType(def) THEN register(registry, def)
              ELSE registerThrowing(registry, def)
     IN /\ options' = r.options
        /\ optionKeys' = r.optionKeys
        /\ normalizationErrors' = r.normalizationErrors
        /\ optionSequence' = r.optionSequence
  /\ hasNewOptions' = IF knownType(def) THEN TRUE ELSE hasNewOptions
  /\ pc' = IF knownType(def) /\ reparseNeeded THEN "parse" ELSE "idle"
  /\ returned' = IF knownType(def) THEN returned ELSE "threw"
  /\ UNCHANGED <<parserOptions, optionsDef, frozen, held, lastCycle, validatorCalls,
                 handlerCalls, errorValues, isParsed, normalizedValues, values, argIdx>>

\* what a caller keeps of a completed parse(): the boolean returned and
\* copies of `args` and `errors`
NoCycle == [returned |-> "none", args |-> EmptyMap, errors |-> Null]
kept == [returned |-> returned, args |-> values, errors |-> errorValues]

(***************************************************************************)
(* The constructor: the parser options are taken, and addOptions files the *)
(* definitions given; nothing is parsed yet.                               *)
(***************************************************************************)
InitConstructed(argvs, envs, vocabularies, defLists) ==
  /\ \E a \in argvs, e \in envs, w \in vocabularies :
       parserOptions = [argv |-> a, env |-> e, truthy |-> w.truthy, falsey |-> w.falsey]
  /\ optionsDef \in defLists
  /\ lastCycle = NoCycle
  /\ frozen = unfrozen
  /\ held = NoMaps
  /\ validatorCalls = EmptyMap
  /\ handlerCalls = EmptyMap
  /\ options = addOptions(emptyRegistry, optionsDef).options
  /\ optionKeys = addOptions(emptyRegistry, optionsDef).optionKeys
  /\ optionSequence = addOptions(emptyRegistry, optionsDef).optionSequence
  /\ normalizationErrors = addOptions(emptyRegistry, optionsDef).normalizationErrors
  /\ errorValues = Null
  /\ isParsed = FALSE
  /\ hasNewOptions = TRUE
  /\ normalizedValues = Null
  /\ values = EmptyMap
  /\ pc = "idle"
  /\ argIdx = 0
  /\ returned = "none"

\* a parser constructed with no definitions
InitWith(argvs, envs, vocabularies) ==
  InitConstructed(argvs, envs, vocabularies, { << >> })

(***************************************************************************)
(* parse(), first step: errorValues is reset to a copy of the definition   *)
(* errors (or null), values to {}, checkOptions() runs, and                *)
(* normalizeOptionValues() starts with an empty raw value map.             *)
(***************************************************************************)
PositionalKey == <<"_","p","o","s","i","t","i","o","n","a","l">>
DoubleDashKey == <<"_","d","o","u","b","l","e","_","d","a","s","h">>

\* the keys of this.options whose first chain entry has the given argument mode
keysWithArg(opts, keys, mode) ==
  {k \in 1..Len(keys) : Len(opts[keys[k]]) > 0 /\ ArgIs(opts[keys[k]][1].arg, mode)}

\* the options are checked only when one was added since the last parse()
checkOptionsOnce(opts, keys, e) ==
  IF ~hasNewOptions THEN e
  ELSE LET e1 == IF Cardinality(keysWithArg(opts, keys, positional)) > 1
                 THEN SetIn(e, PositionalKey,
                            Plain("Cannot have more than one positional argument."))
                 ELSE e
       IN IF Cardinality(keysWithArg(opts, keys, doubleDash)) > 1
          THEN SetIn(e1, DoubleDashKey, Plain("Cannot have more than one '--' argument."))
          ELSE e1

\* only the positional options are counted
checkOptionsPositionalOnly(opts, keys, e) ==
  IF Cardinality(keysWithArg(opts, keys, positional)) > 1
  THEN SetIn(e, PositionalKey, Plain("Cannot have more than one positional argument."))
  ELSE e

checkOptions(opts, keys, e) ==
  LET positionalCount == Cardinality(keysWithArg(opts, keys, positional))
      doubleDashCount == Cardinality(keysWithArg(opts, keys, doubleDash))
      e1 == IF positionalCount > 1
            THEN SetIn(e, PositionalKey, Plain("Cannot have more than one positional argument."))
            ELSE e
  IN IF doubleDashCount > 1
     THEN SetIn(e1, DoubleDashKey, Plain("Cannot have more than one '--' argument."))
     ELSE e1

ParseBegin ==
  /\ pc \in {"idle", "parse"}
  /\ errorValues' = checkOptions(options, optionKeys, normalizationErrors)
  /\ values' = EmptyMap
  /\ lastCycle' = IF pc = "idle" /\ ~hasNewOptions /\ returned \in {"true", "false"}
                   THEN kept ELSE NoCycle
  /\ validatorCalls' = EmptyMap
  /\ handlerCalls' = EmptyMap
  /\ normalizedValues' = Obj(EmptyMap)
  /\ argIdx' = 0
  /\ pc' = IF Len(parserOptions.argv) > 0 THEN "scan" ELSE "env"
  /\ frozen' = unfrozen
  /\ held' = newMaps(held)
  /\ UNCHANGED <<parserOptions, optionsDef, options, optionKeys, optionSequence,
                 normalizationErrors, isParsed, hasNewOptions, returned>>

(***************************************************************************)
(* normalizeOptionValues(), the scan of the command line: one token per    *)
(* step of the loop over argIdx.                                           *)
(***************************************************************************)
\* this.parserOptions.argv[i], undefined past the end
argvAt(i) ==
  IF i < Len(parserOptions.argv) THEN StrV(parserOptions.argv[i + 1]) ELSE Undefined

\* the value a matched option takes and the index it leaves argIdx at
matchedValue(optionDef, arg, idx) ==
  IF arg = StripFromFirstEq(arg)
  THEN IF optionDef.type = "boolean"
       THEN [value |-> BoolV(TRUE), idx |-> idx]
       ELSE [value |-> argvAt(idx + 1), idx |-> idx + 1]
  ELSE [value |-> StrV(StripToLastEq(arg)), idx |-> idx]

\* every match overwrites, whatever the type
storeMatchedOverwriting(nv, optionDef, optionName, value) ==
  IF optionDef.type = "list" THEN Put(nv, optionName, ArrV(<<value>>))
  ELSE Put(nv, optionName, value)

\* a list option appends to the array it has, or starts one; every other
\* type overwrites
storeMatched(nv, optionDef, optionName, value) ==
  IF optionDef.type = "list"
  THEN IF Truthy(Get(nv, optionName))
       THEN Put(nv, optionName, Push(nv[optionName], value))
       ELSE Put(nv, optionName, ArrV(<<value>>))
  ELSE Put(nv, optionName, value)

\* whether a chain entry of the option, the first or a later one, declares
\* argSwitch
switchMatchesAny(chain, argSwitch) ==
  \E j \in 1..Len(chain) : ArgIncludes(chain[j].arg, argSwitch)

\* whether the first chain entry of the option declares argSwitch
switchMatches(chain, argSwitch) ==
  Len(chain) > 0 /\ ArgIncludes(chain[1].arg, argSwitch)

\* the loop over Object.keys(this.options) for one token: every option whose
\* first chain entry includes the switch part takes a value
RECURSIVE matchOptions(_, _, _, _, _)
matchOptions(k, arg, idx, nv, found) ==
  IF k > Len(optionKeys) THEN [idx |-> idx, nv |-> nv, found |-> found]
  ELSE LET optionName == optionKeys[k]
           chain == options[optionName]
       IN IF switchMatches(chain, StripFromFirstEq(arg))
          THEN LET mv == matchedValue(chain[1], arg, idx)
               IN matchOptions(k + 1, arg, mv.idx,
                               storeMatched(nv, chain[1], optionName, mv.value), TRUE)
          ELSE matchOptions(k + 1, arg, idx, nv, found)

\* Object.keys(this.options).find(k => this.options[k][0].arg === mode): the
\* index of the first such key, 0 when there is none
findWithArg(mode) ==
  IF keysWithArg(options, optionKeys, mode) = {} THEN 0
  ELSE CHOOSE k \in keysWithArg(options, optionKeys, mode) :
         \A j \in keysWithArg(options, optionKeys, mode) : k <= j

\* the callback of that find reads `this.options[k][0].arg`: a TypeError when
\* the find comes to a key whose chain is empty before it has found one
findThrows(mode) ==
  \E k \in 1..Len(optionKeys) :
    /\ Len(options[optionKeys[k]]) = 0
    /\ \A j \in 1..(k - 1) : j \notin keysWithArg(options, optionKeys, mode)

\* `nv[name] ||= []; nv[name].push(arg)`: push is a TypeError when the value
\* kept by ||= is truthy and no array
sinkThrows(nv, name) == Truthy(Get(nv, name)) /\ Get(nv, name).t # "object"
sinkPush(nv, name, arg) ==
  IF Truthy(Get(nv, name)) THEN Put(nv, name, Push(nv[name], StrV(arg)))
  ELSE Put(nv, name, ArrV(<<StrV(arg)>>))

unknownOption(argSwitch) ==
  Message("Unknown command line option", <<argSwitch>>, << >>, Undefined)

ScanToken ==
  /\ pc = "scan"
  /\ LET arg == parserOptions.argv[argIdx + 1]
         r == matchOptions(1, arg, argIdx, normalizedValues.m, FALSE)
         p == findWithArg(positional)
     IN IF arg = doubleDash
        THEN /\ argIdx' = argIdx + 1
             /\ pc' = "rest"
             /\ UNCHANGED <<normalizedValues, errorValues, returned>>
        ELSE IF r.found
        THEN /\ normalizedValues' = Obj(r.nv)
             /\ argIdx' = r.idx + 1
             /\ pc' = IF argIdx' < Len(parserOptions.argv) THEN "scan" ELSE "rest"
             /\ UNCHANGED <<errorValues, returned>>
        ELSE IF findThrows(positional)
                \/ (p # 0 /\ sinkThrows(normalizedValues.m, optionKeys[p]))
        THEN /\ pc' = "idle"
             /\ returned' = "threw"
             /\ UNCHANGED <<normalizedValues, errorValues, argIdx>>
        ELSE /\ IF p # 0
                THEN /\ normalizedValues' =
                          Obj(sinkPush(normalizedValues.m, optionKeys[p], arg))
                     /\ UNCHANGED errorValues
                ELSE /\ errorValues' = SetIn(errorValues, StripFromFirstEq(arg),
                                             unknownOption(StripFromFirstEq(arg)))
                     /\ UNCHANGED normalizedValues
             /\ argIdx' = argIdx + 1
             /\ pc' = IF argIdx' < Len(parserOptions.argv) THEN "scan" ELSE "rest"
             /\ UNCHANGED returned
  /\ UNCHANGED <<parserOptions, optionsDef, frozen, lastCycle, validatorCalls, handlerCalls, options, optionKeys, optionSequence,
                 normalizationErrors, isParsed, hasNewOptions, values>>
  /\ held' = through(held, values', errorValues')

\* the tokens left when the loop ended go to the '--' option, or else to the
\* positional option, or else nowhere
restOption ==
  IF findWithArg(doubleDash) # 0 THEN findWithArg(doubleDash) ELSE findWithArg(positional)

\* only the first of the tokens left is pushed
pushRestFirstOnly(nv, name, idx) ==
  IF idx >= Len(parserOptions.argv) THEN nv
  ELSE sinkPush(nv, name, parserOptions.argv[idx + 1])

RECURSIVE pushRest(_, _, _)
pushRest(nv, name, idx) ==
  IF idx >= Len(parserOptions.argv) THEN nv
  ELSE pushRest(sinkPush(nv, name, parserOptions.argv[idx + 1]), name, idx + 1)

ScanRest ==
  /\ pc = "rest"
  /\ IF findThrows(doubleDash)
     THEN /\ pc' = "idle"
          /\ returned' = "threw"
          /\ UNCHANGED <<normalizedValues, argIdx>>
     ELSE IF restOption # 0 /\ argIdx < Len(parserOptions.argv)
     THEN IF sinkThrows(normalizedValues.m, optionKeys[restOption])
          THEN /\ pc' = "idle"
               /\ returned' = "threw"
               /\ UNCHANGED <<normalizedValues, argIdx>>
          ELSE /\ normalizedValues' =
                    Obj(pushRest(normalizedValues.m, optionKeys[restOption], argIdx))
               /\ argIdx' = Len(parserOptions.argv)
               /\ pc' = "env"
               /\ UNCHANGED returned
     ELSE /\ pc' = "env"
          /\ UNCHANGED <<normalizedValues, argIdx, returned>>
  /\ UNCHANGED <<parserOptions, optionsDef, frozen, lastCycle, validatorCalls, handlerCalls, options, optionKeys, optionSequence,
                 normalizationErrors, errorValues, isParsed, hasNewOptions, values>>
  /\ held' = through(held, values', errorValues')

(***************************************************************************)
(* normalizeOptionValues(), the environment pass: every option the scan    *)
(* gave no value takes its environment variable, else its default; a       *)
(* required option found in neither the command line nor the environment   *)
(* is an error.                                                            *)
(***************************************************************************)
\* optionDef.env && Object.hasOwn(this.parserOptions.env, optionDef.env)
foundInEnv(optionDef) ==
  Truthy(optionDef.env) /\ HasOwn(parserOptions.env, PropertyKey(optionDef.env))

\* the value the environment pass stores for an option, Undefined when it
\* stores none: the environment value (in a one-element array for a list),
\* else the default when the default is truthy
envOrDefault(optionDef) ==
  IF foundInEnv(optionDef)
  THEN IF optionDef.type = "list"
       THEN ArrV(<<StrV(parserOptions.env[PropertyKey(optionDef.env)])>>)
       ELSE StrV(parserOptions.env[PropertyKey(optionDef.env)])
  ELSE optionDef.default

\* whether the environment pass stores a value for the option
envStores(optionDef) == foundInEnv(optionDef) \/ Truthy(optionDef.default)

\* a message that names the first switch alone
missingRequiredInFirstOnly(optionDef) ==
  Message("Missing required argument in",
          IF optionDef.arg.kind = "array" THEN SubSeq(optionDef.arg.list, 1, 1)
          ELSE <<optionDef.arg.str>>,
          IF Truthy(optionDef.env) THEN PropertyKey(optionDef.env) ELSE << >>,
          Undefined)

\* 'Missing required argument in command line `a`, `b` or environment variable E.'
missingRequiredIn(optionDef) ==
  Message("Missing required argument in",
          IF optionDef.arg.kind = "array" THEN optionDef.arg.list ELSE <<optionDef.arg.str>>,
          IF Truthy(optionDef.env) THEN PropertyKey(optionDef.env) ELSE << >>,
          Undefined)

RECURSIVE envLoop(_, _, _)
envLoop(k, nv, e) ==
  IF k > Len(optionKeys) THEN [nv |-> nv, e |-> e]
  ELSE LET optionDefKey == optionKeys[k]
           optionDefAr == options[optionDefKey]
       IN IF Len(optionDefAr) < 1 \/ HasOwn(nv, optionDefKey)
          THEN envLoop(k + 1, nv, e)
          ELSE LET optionDef == optionDefAr[1]
                   nv1 == IF envStores(optionDef)
                          THEN Put(nv, optionDef.name, envOrDefault(optionDef))
                          ELSE nv
                   e1 == IF ~foundInEnv(optionDef) /\ optionDef.required
                         THEN SetIn(e, optionDef.name, missingRequiredIn(optionDef))
                         ELSE e
               IN envLoop(k + 1, nv1, e1)

EnvPass ==
  /\ pc = "env"
  /\ LET r == envLoop(1, normalizedValues.m, errorValues)
     IN /\ normalizedValues' = Obj(r.nv)
        /\ errorValues' = r.e
  /\ pc' = "coerce"
  /\ UNCHANGED <<parserOptions, optionsDef, frozen, lastCycle, validatorCalls, handlerCalls, options, optionKeys, optionSequence,
                 normalizationErrors, isParsed, hasNewOptions, values, argIdx,
                 returned>>
  /\ held' = through(held, values', errorValues')

(***************************************************************************)
(* normalizeOptionValues(), the conversion to type: every gathered value   *)
(* is converted to the type of the first chain entry of its option; if any *)
(* error exists after it, the raw value map is set to null.                *)
(***************************************************************************)
\* the boolean case: a string is lower-cased and looked up in the truthy and
\* then the falsey list; any other value is left as it is
coerceBoolean(value, truthy, falsey) ==
  IF value.t # "string" THEN [isError |-> FALSE, value |-> value]
  ELSE LET lc == toLocaleLowerCase(value.v)
       IN IF ArrayIncludes(truthy, lc) THEN [isError |-> FALSE, value |-> BoolV(TRUE)]
          ELSE IF ArrayIncludes(falsey, lc) THEN [isError |-> FALSE, value |-> BoolV(FALSE)]
          ELSE [isError |-> TRUE, value |-> value]

\* the integer case: Number.parseInt, NaN being the error; the NaN has
\* replaced the value by the time the message is made
coerceInteger(value) ==
  IF parseInt(value).nan THEN [isError |-> TRUE, value |-> StrV(<<"N","a","N">>)]
  ELSE [isError |-> FALSE, value |-> NumV(parseInt(value).n)]

coerce(type, value) ==
  CASE type = "boolean" -> coerceBoolean(value, parserOptions.truthy, parserOptions.falsey)
    [] type = "integer" -> coerceInteger(value)
    [] OTHER -> [isError |-> FALSE, value |-> value]

couldNotParse(type, key, value) ==
  Message(IF type = "boolean" THEN "Could not parse boolean argument"
          ELSE "Could not parse integer argument", <<key>>, << >>, value)

\* the raw value map and the error map after the conversion loop
coerceAll(nv, e) ==
  LET res(k) == coerce(options[k][1].type, nv[k])
      bad == {k \in DOMAIN nv : res(k).isError}
  IN [nv |-> [k \in DOMAIN nv |-> IF k \in bad THEN nv[k] ELSE res(k).value],
      e |-> IF bad = {} THEN e
            ELSE Obj([k \in (DOMAIN e.m) \cup bad |->
                       IF k \in bad THEN couldNotParse(options[k][1].type, k, res(k).value)
                       ELSE e.m[k]])]

\* the raw value map is kept whatever the error map holds
discardNever(nv, e) == Obj(nv)

\* `if (this.errorValues && Object.keys(this.errorValues).length > 0)
\*    this.normalizedValues = null`
discardOnError(nv, e) == IF hasErrorsIn(e) THEN Null ELSE Obj(nv)

\* parse() goes on to validateOptionValues() only with a raw value map
Coerce ==
  /\ pc = "coerce"
  /\ LET r == coerceAll(normalizedValues.m, errorValues)
     IN /\ errorValues' = r.e
        /\ normalizedValues' = discardOnError(r.nv, r.e)
        /\ pc' = IF normalizedValues'.null THEN "freeze" ELSE "validate"
  /\ UNCHANGED <<parserOptions, optionsDef, frozen, lastCycle, validatorCalls, handlerCalls, options, optionKeys, optionSequence,
                 normalizationErrors, isParsed, hasNewOptions, values, argIdx,
                 returned>>
  /\ held' = through(held, values', errorValues')

(***************************************************************************)
(* validateOptionValues(): the option names in first-seen order; for each  *)
(* chain entry the required check, then its validators.                    *)
(***************************************************************************)
\* what a validator returns: the symbol `next`, null, or a message
validatorReturn(validator, value) ==
  CASE validator = "defer" -> "next"
    [] validator = "accept" -> "null"
    [] validator = "acceptDefined" -> IF value.t = "undefined" THEN "string" ELSE "null"
    [] OTHER -> "string"

\* every validator of the list is called, whatever the ones before it return
RECURSIVE runValidatorsAll(_, _)
runValidatorsAll(validators, value) ==
  IF Len(validators) = 0 THEN [result |-> "next", calls |-> << >>]
  ELSE [result |-> IF validatorReturn(Head(validators), value) # "next"
                   THEN validatorReturn(Head(validators), value)
                   ELSE runValidatorsAll(Tail(validators), value).result,
        calls |-> <<value>> \o runValidatorsAll(Tail(validators), value).calls]

\* the validators of one chain entry, each called with the raw value:
\* result is "next" when all deferred, else the first result that is not
\* `next`; calls are the values the validators that ran were called with
RECURSIVE runValidators(_, _)
runValidators(validators, value) ==
  IF Len(validators) = 0 THEN [result |-> "next", calls |-> << >>]
  ELSE IF validatorReturn(Head(validators), value) # "next"
       THEN [result |-> validatorReturn(Head(validators), value), calls |-> <<value>>]
       ELSE [result |-> runValidators(Tail(validators), value).result,
             calls |-> <<value>> \o runValidators(Tail(validators), value).calls]

\* 'Missing required argument(s) "a" or "b" or environment variable "E".'
missingRequired(optionDef) ==
  Message("Missing required",
          IF optionDef.arg.kind = "array" THEN optionDef.arg.list ELSE <<optionDef.arg.str>>,
          IF Truthy(optionDef.env) /\ Len(PropertyKey(optionDef.env)) > 0
          THEN PropertyKey(optionDef.env) ELSE << >>,
          Undefined)

rejected(optionDef) == Message("validator", <<optionDef.name>>, << >>, Undefined)

\* the required check of a chain entry fails
requiredFails(optionDef, nv) ==
  optionDef.required /\ (~HasOwn(nv, optionDef.name) \/ nv[optionDef.name].t = "undefined")

\* the calls of one more chain entry of an option, added to the log
logCalls(log, optionName, calls) ==
  Put(log, optionName, Get2(log, optionName) \o <<calls>>)

\* the chain entries of one option from entry j on.  stop: the labelled
\* `break validationSequence` was taken, which ends the loop over the names.
RECURSIVE validateChain(_, _, _, _, _)
validateChain(chain, j, nv, e, log) ==
  IF j > Len(chain) THEN [e |-> e, stop |-> FALSE, log |-> log]
  ELSE LET optionDef == chain[j]
           r == runValidators(optionDef.validator, Get(nv, optionDef.name))
           log1 == logCalls(log, optionDef.name, r.calls)
       IN IF requiredFails(optionDef, nv)
          THEN [e |-> SetIn(e, optionDef.name, missingRequired(optionDef)),
                stop |-> FALSE, log |-> log]
          ELSE IF r.result # "next"
          THEN [e |-> IF r.result = "string"
                      THEN SetIn(e, optionDef.name, rejected(optionDef)) ELSE e,
                stop |-> TRUE, log |-> log1]
          ELSE validateChain(chain, j + 1, nv, e, log1)

\* the loop over this.optionSequence from index i on
RECURSIVE validateFrom(_, _, _, _, _)
validateFrom(i, optionsSeen, nv, e, log) ==
  IF i > Len(optionSequence) THEN [e |-> e, log |-> log]
  ELSE LET optionName == optionSequence[i]
       IN IF optionName \in optionsSeen \/ hasErrorIn(e, optionName)
          THEN validateFrom(i + 1, optionsSeen \cup {optionName}, nv, e, log)
          ELSE LET r == validateChain(options[optionName], 1, nv, e, log)
               IN IF r.stop THEN [e |-> r.e, log |-> r.log]
                  ELSE validateFrom(i + 1, optionsSeen \cup {optionName}, nv, r.e, r.log)

\* the handlers are called whatever validation left in the error map
afterValidationAlways(e) == "handle"

\* `if (!this.hasErrors()) { this.handleOptionValues(); }`
afterValidation(e) == IF hasErrorsIn(e) THEN "freeze" ELSE "handle"

Validate ==
  /\ pc = "validate"
  /\ LET r == validateFrom(1, {}, normalizedValues.m, errorValues, EmptyMap)
     IN /\ errorValues' = r.e
        /\ validatorCalls' = r.log
  /\ pc' = afterValidation(errorValues')
  /\ UNCHANGED <<parserOptions, optionsDef, frozen, lastCycle, handlerCalls, options, optionKeys,
                 optionSequence, normalizationErrors, isParsed, hasNewOptions,
                 normalizedValues, values, argIdx, returned>>
  /\ held' = through(held, values', errorValues')

(***************************************************************************)
(* handleOptionValues(): for each option name in first-seen order, the     *)
(* handlers of every chain entry and then of an added last entry whose     *)
(* one handler stores the value it is given.                               *)
(***************************************************************************)
Defer == [kind |-> "next", value |-> Undefined, next |-> FALSE]
Result(value, next) == [kind |-> "result", value |-> value, next |-> next]
\* returns the value it is given
Echo(next) == [kind |-> "echo", value |-> Undefined, next |-> next]
\* returns a symbol that is not `next`; boxed: Object(Symbol())
OtherSymbol == [kind |-> "symbol", value |-> Undefined, next |-> FALSE]
BoxedSymbol == [kind |-> "symbolObject", value |-> Undefined, next |-> FALSE]

\* (value, name) => ({ value, next: false })
storeHandler == Echo(FALSE)

\* every handler is called with the value the first one was called with
RECURSIVE runHandlersSameValue(_, _)
runHandlersSameValue(handlers, lastResult) ==
  IF Len(handlers) = 0 THEN [out |-> "fallthrough", value |-> lastResult, calls |-> << >>]
  ELSE LET h == Head(handlers)
           value == IF h.kind = "result" THEN h.value ELSE lastResult
           later == runHandlersSameValue(Tail(handlers), lastResult)
       IN IF h.kind = "next" \/ h.next
          THEN [out |-> later.out, value |-> later.value,
                calls |-> <<lastResult>> \o later.calls]
          ELSE [out |-> "stored", value |-> value, calls |-> <<lastResult>>]

\* the handlers of one chain entry, from the given current value on.
\* out: "fallthrough" (every handler returned `next` or continued),
\* "stored" (a value was stored), "error" (a symbol object was returned);
\* calls are the values the handlers that ran were called with
RECURSIVE runHandlers(_, _)
runHandlers(handlers, lastResult) ==
  IF Len(handlers) = 0 THEN [out |-> "fallthrough", value |-> lastResult, calls |-> << >>]
  ELSE LET h == Head(handlers)
           value == IF h.kind = "echo" THEN lastResult
                    ELSE IF h.kind = "result" THEN h.value ELSE Undefined
           later == IF h.kind = "next" THEN runHandlers(Tail(handlers), lastResult)
                    ELSE runHandlers(Tail(handlers), value)
       IN CASE h.kind = "next" \/ (h.kind \in {"result", "echo"} /\ h.next) ->
                 [out |-> later.out, value |-> later.value,
                  calls |-> <<lastResult>> \o later.calls]
            [] h.kind = "symbolObject" ->
                 [out |-> "error", value |-> lastResult, calls |-> <<lastResult>>]
            [] OTHER -> [out |-> "stored", value |-> value, calls |-> <<lastResult>>]

unknownHandlerReturn(optionName) ==
  Message("Unknown handler return symbol for option", <<optionName>>, << >>, Undefined)

\* the chain entries of one option (the added last entry included) from
\* entry j on; lastResult starts from the raw value in every entry
RECURSIVE handleChain(_, _, _, _, _, _, _)
handleChain(handlerLists, j, optionName, nv, vals, e, log) ==
  IF j > Len(handlerLists) THEN [vals |-> vals, e |-> e, log |-> log]
  ELSE LET r == runHandlers(handlerLists[j], Get(nv, optionName))
           log1 == logCalls(log, optionName, r.calls)
       IN CASE r.out = "stored" ->
                 [vals |-> Put(vals, optionName, r.value), e |-> e, log |-> log1]
            [] r.out = "error" ->
                 [vals |-> vals, e |-> SetIn(e, optionName, unknownHandlerReturn(optionName)),
                  log |-> log1]
            [] OTHER -> handleChain(handlerLists, j + 1, optionName, nv, vals, e, log1)

\* the handler lists of the chain entries alone
handlerListsDeclared(chain) == [j \in 1..Len(chain) |-> chain[j].handler]

\* the handler lists of the chain entries and of the entry that
\* handleOptionValues adds after them, whose one handler stores the value
handlerListsOf(chain) ==
  [j \in 1..(Len(chain) + 1) |-> IF j <= Len(chain) THEN chain[j].handler
                                 ELSE <<storeHandler>>]

RECURSIVE handleFrom(_, _, _, _, _, _)
handleFrom(i, optionsSeen, nv, vals, e, log) ==
  IF i > Len(optionSequence) THEN [vals |-> vals, e |-> e, log |-> log]
  ELSE LET optionName == optionSequence[i]
       IN IF optionName \in optionsSeen
          THEN handleFrom(i + 1, optionsSeen, nv, vals, e, log)
          ELSE LET r == handleChain(handlerListsOf(options[optionName]), 1,
                                    optionName, nv, vals, e, log)
               IN handleFrom(i + 1, optionsSeen \cup {optionName}, nv, r.vals, r.e, r.log)

Handle ==
  /\ pc = "handle"
  /\ LET r == handleFrom(1, {}, normalizedValues.m, values, errorValues, EmptyMap)
     IN /\ values' = r.vals
        /\ errorValues' = r.e
        /\ handlerCalls' = r.log
  /\ pc' = "freeze"
  /\ UNCHANGED <<parserOptions, optionsDef, frozen, lastCycle, validatorCalls, options, optionKeys,
                 optionSequence, normalizationErrors, isParsed, hasNewOptions,
                 normalizedValues, argIdx, returned>>
  /\ held' = through(held, values', errorValues')

(***************************************************************************)
(* parse(), last step: freezeValues(), hasNewOptions is cleared, and the   *)
(* call returns whether there is no error.                                 *)
(***************************************************************************)
ParseEnd ==
  /\ pc = "freeze"
  /\ hasNewOptions' = FALSE
  /\ returned' = IF hasErrors THEN "false" ELSE "true"
  /\ pc' = "idle"
  /\ frozen' = freezeValues
  /\ held' = frozenWith(held, frozen')
  /\ UNCHANGED <<parserOptions, optionsDef, lastCycle, validatorCalls, handlerCalls, options, optionKeys, optionSequence,
                 normalizationErrors, errorValues, isParsed, normalizedValues,
                 values, argIdx>>

\* the steps of one parse() call
ParseStep ==
  \/ ParseBegin
  \/ ScanToken
  \/ ScanRest
  \/ EnvPass
  \/ Coerce
  \/ Validate
  \/ Handle
  \/ ParseEnd

(***************************************************************************)
(* The calls a program makes on a Parser: addOption with a definition of   *)
(* a given set, and parse().                                               *)
(***************************************************************************)
NextWith(defs) ==
  \/ \E def \in defs : addOption(def)
  \/ ParseStep

\* all token lists of at most n tokens
TokenLists(tokens, n) == UNION {[1..k -> tokens] : k \in 0..n}

\* TRUTHY_STRINGS and FALSEY_STRINGS
TRUTHY_STRINGS ==
  << <<"t","r","u","e">>, <<"y","e","s">>, <<"y">>, <<"o","n">>,
     <<"1">>, <<"h","i","g","h">>, <<"h">>,
     <<"d","a">>, <<"j","a">>, <<"o","u","i">>, <<"s","i">>, <<"s","í">> >>
FALSEY_STRINGS ==
  << <<"f","a","l","s","e">>, <<"n","o">>, <<"n">>, <<"o","f","f">>,
     <<"0">>, <<"l","o","w">>, <<"l">>,
     <<"n","y","e","t">>, <<"n","i","e","t">>, <<"g","e","e","n">>,
     <<"n","e","i","n">>, <<"n","o","n">> >>
DefaultWords == [truthy |-> TRUTHY_STRINGS, falsey |-> FALSEY_STRINGS]

(***************************************************************************)
(* Sources of a value: options of every type with a switch, the            *)
(* environment variable E and a default that is absent, falsy or truthy;   *)
(* token lists of inline values and bare boolean switches; E set or not.   *)
(***************************************************************************)
EnvE == <<"E">>
port == <<"p","o","r","t">>
flag == <<"f","l","a","g">>
title == <<"t","i","t","l","e">>
tags == <<"t","a","g","s">>

\* the switch lists of the four options
portSwitches == << <<"-","-","p","o","r","t">>, <<"-","p">> >>
flagSwitches == << <<"-","f">> >>
titleSwitches == << <<"-","t">> >>
tagsSwitches == << <<"-","l">> >>

\* an option with no handler and no validator
Plain4(name, arg, env, default, type, required) ==
  OptionsDef(name, arg, env, default, type, required, << >>, << >>)

SourceDefs ==
  {Plain4(port, ArgArray(portSwitches), StrV(EnvE), d, "integer", FALSE) :
     d \in {Undefined, NumV(0), NumV(8)}}
  \cup {Plain4(flag, ArgArray(flagSwitches), StrV(EnvE), BoolV(FALSE), "boolean", FALSE),
        Plain4(title, ArgArray(titleSwitches), StrV(EnvE), StrV(<< >>), "string", FALSE)}

\* tokens that carry their value inline, so that none consumes another
SourceTokens == { <<"-","p","=","2">>, <<"-","f","=","1">>, <<"-","t","=","2">> }

SourceEnvs == { EmptyMap, Put(EmptyMap, EnvE, <<"0">>) }

InitSource == InitWith(TokenLists(SourceTokens, MaxArgs), SourceEnvs, {DefaultWords})
NextSource == NextWith(SourceDefs)
SpecSource == InitSource /\ [][NextSource]_vars

\* the tokens of the list whose switch part is one of the given switches
matchingTokens(switches) ==
  {i \in 1..Len(parserOptions.argv) :
     ArrayIncludes(switches, StripFromFirstEq(parserOptions.argv[i]))}

Last(S) == CHOOSE i \in S : \A j \in S : j <= i

\* C1: source precedence.  After the environment pass the raw value of every
\* option is the inline value of the last token that matched one of its
\* switches; else the value of its environment variable when the environment
\* has it; else its declared default, whatever value of the type that is: a
\* declared default is never dropped.
C1_SourcePrecedence ==
  pc = "coerce" =>
    \A k \in DOMAIN options :
      LET optionDef == options[k][1]
          m == matchingTokens(optionDef.arg.list)
          nv == normalizedValues.m
      IN IF m # {}
         THEN HasOwn(nv, k) /\ nv[k] = StrV(StripToLastEq(parserOptions.argv[Last(m)]))
         ELSE IF HasOwn(parserOptions.env, EnvE)
         THEN HasOwn(nv, k) /\ nv[k] = StrV(parserOptions.env[EnvE])
         ELSE IF optionDef.default # Undefined
         THEN HasOwn(nv, k) /\ nv[k] = optionDef.default
         ELSE ~HasOwn(nv, k)

(***************************************************************************)
(* Required options: a required integer option with two switches, bound to *)
(* the environment variable E or to none, a required string option, and a  *)
(* later definition of the first name that is not required.                *)
(***************************************************************************)
otherSwitches == << <<"-","q">> >>

RequiredDefs ==
  {Plain4(port, ArgArray(portSwitches), StrV(EnvE), Undefined, "integer", TRUE),
   Plain4(port, ArgArray(portSwitches), Undefined, Undefined, "integer", TRUE),
   Plain4(title, ArgArray(titleSwitches), Undefined, Undefined, "string", TRUE),
   Plain4(port, ArgArray(otherSwitches), Undefined, NumV(8), "integer", FALSE)}

RequiredTokens == { <<"-","p","=","2">>, <<"-","t","=","2">>, <<"-","q","=","2">> }

InitRequired == InitWith(TokenLists(RequiredTokens, MaxArgs), SourceEnvs, {DefaultWords})
NextRequired == NextWith(RequiredDefs)
SpecRequired == InitRequired /\ [][NextRequired]_vars

\* parse() has just returned: no definition was added since
justReturned == pc = "idle" /\ ~hasNewOptions /\ returned \in {"true", "false"}

\* the first chain entry of option k is required and has a value neither from
\* a token nor from the environment
requiredAndMissing(k) ==
  /\ options[k][1].required
  /\ matchingTokens(options[k][1].arg.list) = {}
  /\ ~foundInEnv(options[k][1])

\* C2: when the first chain entry of an option is required and the option has
\* no value from the tokens and none from the environment, parse() returns
\* false and the error map has, under the name of the option, a message that
\* names every declared switch of the entry, and its environment variable
\* when one is bound.
C2_MissingRequired ==
  justReturned =>
    \A k \in DOMAIN options :
      requiredAndMissing(k) =>
        /\ returned = "false"
        /\ hasError(k)
        /\ errorValues.m[k].kind = "Missing required argument in"
        /\ errorValues.m[k].names = options[k][1].arg.list
        /\ options[k][1].env.t = "string" => errorValues.m[k].env = options[k][1].env.v

\* a parse has failed on a missing required option of two switches that is
\* bound to an environment variable, and on one that is bound to none
C2_Witness ==
  /\ justReturned
  /\ \E k \in DOMAIN options :
       requiredAndMissing(k) /\ options[k][1].env.t = "string"
       /\ Len(options[k][1].arg.list) = 2
  /\ \E k \in DOMAIN options :
       requiredAndMissing(k) /\ options[k][1].env.t # "string"

(***************************************************************************)
(* Validators and required chain entries: an option whose validator        *)
(* accepts, defers or rejects, and a second option that is required in its *)
(* first definition or only in a later one.                                *)
(***************************************************************************)
alpha == <<"a","l","p","h","a">>
beta == <<"b","e","t","a">>
alphaSwitches == << <<"-","a">> >>
betaSwitches == << <<"-","b">> >>

ValidateDefs ==
  {OptionsDef(alpha, ArgArray(alphaSwitches), Undefined, Undefined, "string", FALSE,
              << >>, <<v>>) : v \in {"accept", "defer", "reject"}}
  \cup {Plain4(beta, ArgArray(betaSwitches), Undefined, Undefined, "string", r) :
          r \in BOOLEAN}

\* "-b" is a bare switch: the token after it is its value
ValidateTokens == { <<"-","a","=","1">>, <<"-","b","=","1">>, <<"-","b">> }

InitValidate == InitWith(TokenLists(ValidateTokens, MaxArgs), {EmptyMap}, {DefaultWords})
NextValidate == NextWith(ValidateDefs)
SpecValidate == InitValidate /\ [][NextValidate]_vars

\* option k has a chain entry, the first or a later one, that is required
anyRequired(k) == \E j \in 1..Len(options[k]) : options[k][j].required

\* C3: whenever parse() returns true, every option with a required chain
\* entry, the first or a later one, has a present value that is not
\* undefined, whatever the other options and their validators are.
C3_RequiredPresent ==
  (justReturned /\ returned = "true") =>
    \A k \in DOMAIN options :
      anyRequired(k) =>
        /\ ~normalizedValues.null
        /\ HasOwn(normalizedValues.m, k)
        /\ normalizedValues.m[k].t # "undefined"
        /\ HasOwn(values, k)
        /\ values[k].t # "undefined"

(***************************************************************************)
(* Integer coercion: an integer option given a numeral, a numeral followed *)
(* by a letter, or a letter, on the command line or in the environment.    *)
(***************************************************************************)
IntegerDefs ==
  {Plain4(port, ArgArray(portSwitches), e, Undefined, "integer", FALSE) :
     e \in {Undefined, StrV(EnvE)}}
  \cup {Plain4(title, ArgArray(titleSwitches), Undefined, Undefined, "string", FALSE)}

IntegerTokens ==
  { <<"-","p","=","1","2">>, <<"-","p","=","1","x">>, <<"-","p","=","x">> }

IntegerEnvs == { EmptyMap, Put(EmptyMap, EnvE, <<"7">>), Put(EmptyMap, EnvE, <<"7","x">>) }

InitInteger == InitWith(TokenLists(IntegerTokens, MaxArgs), IntegerEnvs, {DefaultWords})
NextInteger == NextWith(IntegerDefs)
SpecInteger == InitInteger /\ [][NextInteger]_vars

\* a base-10 numeral: an optional sign and then decimal digits only
IsNumeral(str) ==
  LET digits == IF Len(str) > 0 /\ str[1] \in {"-", "+"} THEN Tail(str) ELSE str
  IN /\ Len(digits) > 0
     /\ \A i \in 1..Len(digits) :
          digits[i] \in {"0","1","2","3","4","5","6","7","8","9"}

NumeralValue(str) ==
  IF str[1] = "-" THEN 0 - DigitsToNumber(Tail(str), 10)
  ELSE IF str[1] = "+" THEN DigitsToNumber(Tail(str), 10)
  ELSE DigitsToNumber(str, 10)

\* option k has a value from a token or from the environment
hasSource(k) ==
  matchingTokens(options[k][1].arg.list) # {} \/ foundInEnv(options[k][1])

\* the string the option takes from its source: the inline value of the last
\* token that matches it, else the value of its environment variable
sourceString(k) ==
  IF matchingTokens(options[k][1].arg.list) # {}
  THEN StripToLastEq(parserOptions.argv[Last(matchingTokens(options[k][1].arg.list))])
  ELSE parserOptions.env[PropertyKey(options[k][1].env)]

\* C4: integer coercion.  An integer option whose source string is a base-10
\* numeral resolves to that integer, as a number; a source string that is no
\* base-10 numeral is a coercion error under the name of the option, and
\* parse() returns false.
C4_IntegerCoercion ==
  justReturned =>
    \A k \in DOMAIN options :
      (options[k][1].type = "integer" /\ hasSource(k)) =>
        IF IsNumeral(sourceString(k))
        THEN /\ returned = "true"
             /\ HasOwn(values, k)
             /\ values[k] = NumV(NumeralValue(sourceString(k)))
        ELSE /\ returned = "false"
             /\ hasError(k)
             /\ errorValues.m[k].kind = "Could not parse integer argument"

(***************************************************************************)
(* Boolean coercion: a boolean option given a word in either case, under   *)
(* the default word lists and under word lists the caller configures.      *)
(***************************************************************************)
BooleanDefs ==
  {Plain4(flag, ArgArray(flagSwitches), e, Undefined, "boolean", FALSE) :
     e \in {Undefined, StrV(EnvE)}}
  \cup {Plain4(title, ArgArray(titleSwitches), Undefined, Undefined, "string", FALSE)}

BooleanTokens ==
  { <<"-","f","=","y">>, <<"-","f","=","N">>, <<"-","f","=","o","k">> }

BooleanEnvs == { EmptyMap, Put(EmptyMap, EnvE, <<"O","K">>) }

\* the word lists a caller passes as parserOptions.truthy and .falsey
ConfiguredWords == [truthy |-> << <<"Y">>, <<"o","k">> >>, falsey |-> << <<"n">> >>]

InitBoolean ==
  InitWith(TokenLists(BooleanTokens, MaxArgs), BooleanEnvs, {DefaultWords, ConfiguredWords})
NextBoolean == NextWith(BooleanDefs)
SpecBoolean == InitBoolean /\ [][NextBoolean]_vars

\* str equals, ignoring case, a word of the list
InIgnoringCase(words, str) ==
  \E i \in 1..Len(words) : toLocaleLowerCase(words[i]) = toLocaleLowerCase(str)

\* C6: boolean coercion.  Under every pair of configured word lists, the
\* string value of a boolean option that equals a truthy word, ignoring
\* case, resolves to true, one that equals a falsey word to false, and one
\* in neither list is a coercion error that fails the parse.
C6_BooleanCoercion ==
  justReturned =>
    \A k \in DOMAIN options :
      (options[k][1].type = "boolean" /\ hasSource(k)) =>
        IF InIgnoringCase(parserOptions.truthy, sourceString(k))
        THEN returned = "true" /\ HasOwn(values, k) /\ values[k] = BoolV(TRUE)
        ELSE IF InIgnoringCase(parserOptions.falsey, sourceString(k))
        THEN returned = "true" /\ HasOwn(values, k) /\ values[k] = BoolV(FALSE)
        ELSE /\ returned = "false"
             /\ hasError(k)
             /\ errorValues.m[k].kind = "Could not parse boolean argument"

(***************************************************************************)
(* Bare switches: a boolean, a string and a list option, and a second      *)
(* string option that declares the switch of the first.                    *)
(***************************************************************************)
alias == <<"a","l","i","a","s">>

ScanDefs ==
  {Plain4(flag, ArgArray(flagSwitches), Undefined, Undefined, "boolean", FALSE),
   Plain4(title, ArgArray(titleSwitches), Undefined, Undefined, "string", FALSE),
   Plain4(tags, ArgArray(tagsSwitches), Undefined, Undefined, "list", FALSE),
   Plain4(alias, ArgArray(titleSwitches), Undefined, Undefined, "string", FALSE)}

ScanTokens == { <<"-","f">>, <<"-","t">>, <<"-","l">>, <<"v">> }

InitScan == InitWith(TokenLists(ScanTokens, MaxArgs), {EmptyMap}, {DefaultWords})
NextScan == NextWith(ScanDefs)
SpecScan == InitScan /\ [][NextScan]_vars

\* the token the scan is at
currentToken == parserOptions.argv[argIdx + 1]

\* the scan is at a token with no "=" in it that is not the separator
atBareToken ==
  pc = "scan" /\ FirstEq(currentToken) = 0 /\ currentToken # doubleDash

\* the first chain entry of option k declares the switch
declares(k, switch) ==
  options[k][1].arg.kind = "array" /\ ArrayIncludes(options[k][1].arg.list, switch)

\* the value the scan stored last for an option: the last element for a list
lastStored(nv, k) ==
  IF nv[k].t = "object" THEN nv[k].v[Len(nv[k].v)] ELSE nv[k]

\* C5: a boolean option matched by a bare switch gets the value true and the
\* scan goes on at the very next token; every other option matched by a bare
\* switch takes exactly the one following token as its value, and the scan
\* goes on after that token.
C5_BareSwitch ==
  [][atBareToken =>
       \A k \in DOMAIN options :
         declares(k, currentToken) =>
           /\ ~normalizedValues'.null
           /\ HasOwn(normalizedValues'.m, k)
           /\ IF options[k][1].type = "boolean"
              THEN /\ normalizedValues'.m[k] = BoolV(TRUE)
                   /\ argIdx' = argIdx + 1
              ELSE /\ lastStored(normalizedValues'.m, k) = argvAt(argIdx + 1)
                   /\ argIdx' = argIdx + 2]_vars

(***************************************************************************)
(* List options: a list option matched by inline and by bare switches, a   *)
(* second list option bound to the environment variable E, and a string    *)
(* option whose bare switch consumes the token after it.                   *)
(***************************************************************************)
more == <<"m","o","r","e">>
moreSwitches == << <<"-","m">> >>

ListDefs ==
  {Plain4(tags, ArgArray(tagsSwitches), Undefined, Undefined, "list", FALSE),
   Plain4(more, ArgArray(moreSwitches), StrV(EnvE), Undefined, "list", FALSE),
   Plain4(title, ArgArray(titleSwitches), Undefined, Undefined, "string", FALSE)}

ListTokens ==
  { <<"-","l","=","1">>, <<"-","l","=","2">>, <<"-","l">>, <<"-","t">> }

ListEnvs == { EmptyMap, Put(EmptyMap, EnvE, <<"9">>) }

InitList == InitWith(TokenLists(ListTokens, MaxArgs), ListEnvs, {DefaultWords})
NextList == NextWith(ListDefs)
SpecList == InitList /\ [][NextList]_vars

\* the elements of the list an option has in a raw value map, none if absent
elements(nv, k) == IF HasOwn(nv, k) THEN nv[k].v ELSE << >>

\* the value a token gives the option it matches: its inline value, or the
\* token after it
tokenValue ==
  IF FirstEq(currentToken) = 0 THEN argvAt(argIdx + 1)
  ELSE StrV(SubSeq(currentToken, FirstEq(currentToken) + 1, Len(currentToken)))

\* the scan is at a token whose switch part option k declares
matchesHere(k) ==
  /\ pc = "scan"
  /\ currentToken # doubleDash
  /\ declares(k, StripFromFirstEq(currentToken))

\* C10: for a list option, every match of one of its switches appends one
\* value to the list and leaves the values before it in place, no other step
\* of the scan changes the list, and a list value taken from the environment
\* is a list of that one value: after the scan the list holds the matched
\* values in token order, one for each match.
C10_ListAppends ==
  [][\A k \in DOMAIN options :
       options[k][1].type = "list" =>
         LET before == elements(normalizedValues.m, k)
             after == elements(normalizedValues'.m, k)
         IN /\ matchesHere(k) => after = Append(before, tokenValue)
            /\ (pc \in {"scan", "rest"} /\ ~matchesHere(k)) => after = before
            /\ pc = "env" =>
                 after = IF HasOwn(normalizedValues.m, k) THEN before
                         ELSE IF foundInEnv(options[k][1])
                         THEN <<StrV(parserOptions.env[PropertyKey(options[k][1].env)])>>
                         ELSE << >>]_vars

\* after the scan and the environment pass, one list holds the two values
\* matched, in token order, and another the one value of the environment
C10_Witness ==
  /\ pc = "coerce"
  /\ HasOwn(normalizedValues.m, tags)
  /\ normalizedValues.m[tags] = ArrV(<<StrV(<<"1">>), StrV(<<"2">>)>>)
  /\ HasOwn(normalizedValues.m, more)
  /\ normalizedValues.m[more] = ArrV(<<StrV(<<"9">>)>>)

(***************************************************************************)
(* Argument modes: two options that may be positional, two that may be the *)
(* '--' option, and a switch form of one of the names, registered by the   *)
(* constructor and by addOption in any order.                              *)
(***************************************************************************)
files == <<"f","i","l","e","s">>
inputs == <<"i","n","p","u","t","s">>
rest == <<"r","e","s","t">>
extra == <<"e","x","t","r","a">>
filesSwitches == << <<"-","i">> >>

Positional(name) == Plain4(name, ArgString(positional), Undefined, Undefined, "absent", FALSE)
Separator(name) == Plain4(name, ArgString(doubleDash), Undefined, Undefined, "absent", FALSE)

ModeDefs ==
  {Positional(files), Positional(inputs), Separator(rest), Separator(extra),
   Plain4(files, ArgArray(filesSwitches), Undefined, Undefined, "list", FALSE)}

\* the definitions given to the constructor
ModeLists ==
  { << >>,
    <<Positional(files), Separator(rest)>>,
    <<Positional(files), Positional(inputs)>>,
    <<Separator(rest), Separator(extra)>> }

ModeTokens == { <<"x">>, doubleDash, <<"-","i">> }

InitModes ==
  InitConstructed(TokenLists(ModeTokens, MaxArgs), {EmptyMap}, {DefaultWords}, ModeLists)
NextModes == NextWith(ModeDefs)
SpecModes == InitModes /\ [][NextModes]_vars

\* the option names whose first chain entry has the argument mode
namesInMode(mode) ==
  {k \in DOMAIN options : options[k][1].arg = ArgString(mode)}

\* C7: a parse() with two or more option names whose first chain entry is
\* positional returns false with the key '_positional' in the error map,
\* whatever the tokens, and one with two or more '--' options returns false
\* with the key '_double_dash'; each key is there for its own condition only,
\* so both are there when both conditions hold and neither with one
\* positional and one '--' option.
C7_ModeConflicts ==
  /\ returned # "threw"
  /\ justReturned =>
       /\ hasError(PositionalKey) <=> Cardinality(namesInMode(positional)) >= 2
       /\ hasError(DoubleDashKey) <=> Cardinality(namesInMode(doubleDash)) >= 2
       /\ (hasError(PositionalKey) \/ hasError(DoubleDashKey)) => returned = "false"

\* a parse() of a non-empty token list has returned with both conflicts
C7_Witness ==
  /\ justReturned
  /\ Len(parserOptions.argv) > 0
  /\ Cardinality(namesInMode(positional)) >= 2
  /\ Cardinality(namesInMode(doubleDash)) >= 2
  /\ hasError(PositionalKey) /\ hasError(DoubleDashKey)
  /\ returned = "false"

(***************************************************************************)
(* The positional option: a positional option, a string option and a       *)
(* boolean option, and tokens that are no declared switch.                 *)
(***************************************************************************)
PositionalDefs ==
  {Positional(files),
   Plain4(title, ArgArray(titleSwitches), Undefined, Undefined, "string", FALSE),
   Plain4(flag, ArgArray(flagSwitches), Undefined, Undefined, "boolean", FALSE)}

PositionalTokens == { <<"a">>, <<"b">>, <<"-","t">>, <<"-","f">> }

InitPositional == InitWith(TokenLists(PositionalTokens, MaxArgs), {EmptyMap}, {DefaultWords})
NextPositional == NextWith(PositionalDefs)
SpecPositional == InitPositional /\ [][NextPositional]_vars

\* the scan is at a token, not the separator, whose switch part no option
\* declares as a switch
atUndeclaredToken ==
  /\ pc = "scan"
  /\ currentToken # doubleDash
  /\ \A k \in DOMAIN options : ~declares(k, StripFromFirstEq(currentToken))

\* C8: with a positional option declared, a token of the scan whose switch
\* part is no declared switch is appended to the list of the positional
\* option, after the tokens appended before it, and the scan goes on at the
\* next token: the token is neither dropped nor treated as a switch.
C8_PositionalSink ==
  [][atUndeclaredToken =>
       \A p \in namesInMode(positional) :
         /\ elements(normalizedValues'.m, p)
              = Append(elements(normalizedValues.m, p), StrV(currentToken))
         /\ argIdx' = argIdx + 1]_vars

(***************************************************************************)
(* The '--' option: the option of the separator, a positional option and a *)
(* string option, and token lists long enough to have two tokens after the *)
(* separator.                                                              *)
(***************************************************************************)
MaxSeparatorArgs == 3

SeparatorDefs ==
  {Separator(rest), Positional(files),
   Plain4(title, ArgArray(titleSwitches), Undefined, Undefined, "string", FALSE)}

SeparatorTokens == { doubleDash, <<"-","t">>, <<"x">>, <<"-">> }

InitSeparator ==
  InitWith(TokenLists(SeparatorTokens, MaxSeparatorArgs), {EmptyMap}, {DefaultWords})
NextSeparator == NextWith(SeparatorDefs)
SpecSeparator == InitSeparator /\ [][NextSeparator]_vars

\* the tokens from index i (0-based) on, as values
tokensFrom(i) ==
  [j \in 1..(Len(parserOptions.argv) - i) |-> StrV(parserOptions.argv[i + j])]

\* C9: with a '--' option declared, the scan step at the separator token
\* changes no raw value and no error, and the step after it appends every
\* token after the separator, as it is and in order, to the list of the '--'
\* option, changing no other raw value and recording no error.
C9_SeparatorCapture ==
  [][\A s \in namesInMode(doubleDash) :
       /\ (pc = "scan" /\ currentToken = doubleDash) =>
            /\ normalizedValues' = normalizedValues
            /\ errorValues' = errorValues
            /\ pc' = "rest"
       /\ pc = "rest" =>
            /\ elements(normalizedValues'.m, s)
                 = elements(normalizedValues.m, s) \o tokensFrom(argIdx)
            /\ \A k \in DOMAIN options \ {s} :
                 /\ HasOwn(normalizedValues'.m, k) <=> HasOwn(normalizedValues.m, k)
                 /\ elements(normalizedValues'.m, k) = elements(normalizedValues.m, k)
            /\ errorValues' = errorValues
            /\ pc' = "env"]_vars

\* the '--' option holds the two tokens after the separator, one of them a
\* declared switch; the option of that switch has no value and nothing is
\* reported
C9_Witness ==
  /\ pc = "env"
  /\ parserOptions.argv = <<doubleDash, <<"-","t">>, <<"x">> >>
  /\ HasOwn(options, rest) /\ HasOwn(options, title)
  /\ HasOwn(normalizedValues.m, rest)
  /\ normalizedValues.m[rest] = ArrV(<<StrV(<<"-","t">>), StrV(<<"x">>)>>)
  /\ ~HasOwn(normalizedValues.m, title)
  /\ ~hasErrors

(***************************************************************************)
(* Unknown tokens: a string option, a boolean option and the '--' option,  *)
(* no positional option, and tokens that are no declared switch.           *)
(***************************************************************************)
UnknownDefs ==
  {Plain4(title, ArgArray(titleSwitches), Undefined, Undefined, "string", FALSE),
   Plain4(flag, ArgArray(flagSwitches), Undefined, Undefined, "boolean", FALSE),
   Separator(rest)}

UnknownTokens == { <<"x">>, <<"-">>, <<"-","t","=","1">>, <<"-","f">> }

InitUnknown == InitWith(TokenLists(UnknownTokens, MaxArgs), {EmptyMap}, {DefaultWords})
NextUnknown == NextWith(UnknownDefs)
SpecUnknown == InitUnknown /\ [][NextUnknown]_vars

\* the error map has the 'unknown option' entry of the switch part
unknownRecorded(e, switch) ==
  /\ ~e.null
  /\ HasOwn(e.m, switch)
  /\ e.m[switch] = unknownOption(switch)

\* C11: with no positional option declared, a token of the scan whose switch
\* part is no declared switch is recorded as an 'unknown option' error and
\* changes no raw value, the scan goes on at the next token, the entry stays
\* in the error map to the end of the cycle, and a cycle that ends with an
\* error returns false.
C11_UnknownOption ==
  [][/\ (atUndeclaredToken /\ namesInMode(positional) = {}) =>
          /\ unknownRecorded(errorValues', StripFromFirstEq(currentToken))
          /\ normalizedValues' = normalizedValues
          /\ argIdx' = argIdx + 1
          /\ pc' = IF argIdx' < Len(parserOptions.argv) THEN "scan" ELSE "rest"
     /\ pc \in {"scan", "rest", "env", "coerce", "validate", "handle", "freeze"} =>
          \A key \in DOMAIN errorValues.m :
            unknownRecorded(errorValues, key) => unknownRecorded(errorValues', key)
     /\ (pc = "freeze" /\ hasErrors) => returned' = "false"]_vars

(***************************************************************************)
(* Handler lists: an option with lists of handlers that defer, return a    *)
(* value and continue, return a value and stop, or hand on the value they  *)
(* are given, registered once or twice, and an option with no handler.     *)
(***************************************************************************)
ValueX == StrV(<<"X">>)
ValueY == StrV(<<"Y">>)

Handled(name, switches, handlers) ==
  OptionsDef(name, ArgArray(switches), Undefined, Undefined, "string", FALSE,
             handlers, << >>)

HandlerDefs ==
  {Handled(alpha, alphaSwitches, <<Result(ValueX, TRUE), Defer, Echo(FALSE)>>),
   Handled(alpha, alphaSwitches, <<Defer, Result(ValueY, FALSE), Echo(FALSE)>>),
   Handled(alpha, alphaSwitches, <<Echo(TRUE), Result(ValueX, TRUE)>>),
   Handled(alpha, alphaSwitches, <<Defer, Defer>>),
   Handled(alpha, alphaSwitches, <<Result(ValueX, TRUE), Defer>>),
   Plain4(beta, ArgArray(betaSwitches), Undefined, Undefined, "string", FALSE)}

HandlerTokens == { <<"-","a","=","1">>, <<"-","b","=","2">> }

InitHandlers == InitWith(TokenLists(HandlerTokens, MaxArgs), {EmptyMap}, {DefaultWords})
NextHandlers == NextWith(HandlerDefs)
SpecHandlers == InitHandlers /\ [][NextHandlers]_vars

\* the handler returns the defer signal
defers(h) == h.kind = "next"
\* the handler returns a result with the given continue flag
returnsResult(h, continue) == h.kind \in {"result", "echo"} /\ h.next = continue
\* the value of the result of a handler called with the value given
resultValue(h, given) == IF h.kind = "echo" THEN given ELSE h.value

\* the handler lists of option k that ran in this cycle, first to last
ranEntries(k) == 1..Len(handlerCalls[k])

\* C12: in the handler list of one definition the handlers are called in
\* order.  After a handler that defers the next one is called with the same
\* value; after one that returns a value with continue=true the next one is
\* called with that value; one that returns a value with continue=false has
\* its value stored as the final value of the option and is the last handler
\* of the option called in the cycle, in this and every later chain entry.
C12_HandlerOrder ==
  pc = "freeze" =>
    \A k \in DOMAIN handlerCalls :
      \A j \in ranEntries(k) :
        LET handlers == handlerListsOf(options[k])[j]
            calls == handlerCalls[k][j]
        IN /\ Len(calls) <= Len(handlers)
           /\ \A i \in 1..Len(calls) :
                /\ defers(handlers[i]) /\ i < Len(handlers) =>
                     Len(calls) > i /\ calls[i + 1] = calls[i]
                /\ returnsResult(handlers[i], TRUE) /\ i < Len(handlers) =>
                     Len(calls) > i /\ calls[i + 1] = resultValue(handlers[i], calls[i])
                /\ returnsResult(handlers[i], FALSE) =>
                     /\ Len(calls) = i
                     /\ Len(handlerCalls[k]) = j
                     /\ HasOwn(values, k)
                     /\ values[k] = resultValue(handlers[i], calls[i])

\* the three handlers of one list ran: the second, after a continue with X,
\* was called with X and deferred, the third was called with X and stored it
C12_Witness ==
  /\ pc = "freeze"
  /\ HasOwn(handlerCalls, alpha)
  /\ options[alpha][1].handler = <<Result(ValueX, TRUE), Defer, Echo(FALSE)>>
  /\ handlerCalls[alpha] = << <<StrV(<<"1">>), ValueX, ValueX>> >>
  /\ values[alpha] = ValueX

\* in the list, handler i returns a value with continue=true and every
\* handler after it defers
lastValueContinues(handlers, i) ==
  /\ handlers[i].kind = "result" /\ handlers[i].next
  /\ \A later \in (i + 1)..Len(handlers) : defers(handlers[later])

\* C13: for an option of one definition whose handlers ran, when a handler
\* of its list returned the value v with continue=true and every handler
\* after it deferred, as in the list [h1 returns X and continues, h2 defers],
\* the final value stored for the option is v.
C13_TerminalStoresCurrent ==
  pc = "freeze" =>
    \A k \in DOMAIN handlerCalls :
      Len(options[k]) = 1 =>
        \A i \in 1..Len(options[k][1].handler) :
          lastValueContinues(options[k][1].handler, i) =>
            HasOwn(values, k) /\ values[k] = options[k][1].handler[i].value

(***************************************************************************)
(* Rejections: an option with lists of validators that defer or reject,    *)
(* one of the definitions with a handler, registered once or twice, and a  *)
(* second option whose validator rejects a missing value.                  *)
(***************************************************************************)
Validated(name, switches, validators, handlers) ==
  OptionsDef(name, ArgArray(switches), Undefined, Undefined, "string", FALSE,
             handlers, validators)

RejectDefs ==
  {Validated(alpha, alphaSwitches, <<"defer", "reject">>, << >>),
   Validated(alpha, alphaSwitches, <<"reject", "defer">>, << >>),
   Validated(alpha, alphaSwitches, <<"defer">>, <<Result(ValueX, FALSE)>>),
   Validated(beta, betaSwitches, <<"acceptDefined">>, <<Echo(FALSE)>>)}

RejectTokens == { <<"-","a","=","1">>, <<"-","b","=","2">> }

InitReject == InitWith(TokenLists(RejectTokens, MaxArgs), {EmptyMap}, {DefaultWords})
NextReject == NextWith(RejectDefs)
SpecReject == InitReject /\ [][NextReject]_vars

\* the validator returns a rejection message for the value
rejects(validator, value) == validatorReturn(validator, value) = "string"

\* C14: when a validator returns a rejection message for an option, it is
\* the last validator of that option called in the cycle, in its own list
\* and in every later chain entry; the message is in the error map under the
\* name of the option, no handler is called and no value is resolved in the
\* cycle, and parse() returns false.
C14_RejectionStops ==
  pc \in {"freeze", "idle"} =>
    \A k \in DOMAIN validatorCalls :
      \A j \in 1..Len(validatorCalls[k]) :
        \A i \in 1..Len(validatorCalls[k][j]) :
          rejects(options[k][j].validator[i], validatorCalls[k][j][i]) =>
            /\ Len(validatorCalls[k][j]) = i
            /\ Len(validatorCalls[k]) = j
            /\ hasError(k)
            /\ errorValues.m[k] = rejected(options[k][j])
            /\ handlerCalls = EmptyMap
            /\ values = EmptyMap
            /\ justReturned => returned = "false"

\* parse() returned after the first validator of a later chain entry
\* rejected: the validator after it was not called and no handler ran
C14_Witness ==
  /\ justReturned
  /\ HasOwn(options, alpha)
  /\ Len(options[alpha]) = 2
  /\ options[alpha][1].handler = <<Result(ValueX, FALSE)>>
  /\ options[alpha][2].validator = <<"reject", "defer">>
  /\ HasOwn(validatorCalls, alpha)
  /\ validatorCalls[alpha] = << <<StrV(<<"1">>)>>, <<StrV(<<"1">>)>> >>
  /\ hasError(alpha)
  /\ handlerCalls = EmptyMap
  /\ returned = "false"

(***************************************************************************)
(* Definition errors: a definition with no name, one whose argument is a   *)
(* string that is no mode, a required one with a default, a boolean one    *)
(* with a default that is no boolean word, a positional one bound to an    *)
(* environment variable, and a definition with no violation.               *)
(***************************************************************************)
NoName == << >>
nameSwitches == << <<"-","n">> >>

ViolatingDefs ==
  {Plain4(NoName, ArgArray(nameSwitches), Undefined, Undefined, "string", FALSE),
   Plain4(port, ArgString(<<"-","p">>), Undefined, Undefined, "integer", FALSE),
   Plain4(title, ArgArray(titleSwitches), Undefined, StrV(<<"d">>), "string", TRUE),
   Plain4(flag, ArgArray(flagSwitches), Undefined, StrV(<<"m","a","y","b","e">>),
          "boolean", FALSE),
   Plain4(files, ArgString(positional), StrV(EnvE), Undefined, "absent", FALSE)}

DefinitionDefs ==
  ViolatingDefs
  \cup {Plain4(tags, ArgArray(tagsSwitches), Undefined, Undefined, "list", FALSE)}

DefinitionTokens == { <<"-","p","=","1">>, <<"-","l","=","1">>, <<"x">> }

InitDefinition ==
  InitWith(TokenLists(DefinitionTokens, MaxArgs), {EmptyMap}, {DefaultWords})
NextDefinition == NextWith(DefinitionDefs)
SpecDefinition == InitDefinition /\ [][NextDefinition]_vars

\* the keys under which addOption has recorded a definition error
definitionErrorKeys == DOMAIN normalizationErrors.m

RequiredDefaultDefs ==
  {Plain4(port, ArgArray(portSwitches), Undefined, NumV(d), "integer", TRUE) : d \in {0, 8}}
  \cup {Plain4(flag, ArgArray(flagSwitches), Undefined, BoolV(FALSE), "boolean", TRUE),
        Plain4(title, ArgArray(titleSwitches), Undefined, StrV(<<"d">>), "string", TRUE),
        Plain4(tags, ArgArray(tagsSwitches), Undefined, Undefined, "list", FALSE)}

RequiredDefaultTokens == { <<"-","p","=","5">>, <<"-","f","=","1">>, <<"-","t","=","1">> }

InitRequiredDefault ==
  InitWith(TokenLists(RequiredDefaultTokens, MaxArgs), {EmptyMap}, {DefaultWords})
NextRequiredDefault == NextWith(RequiredDefaultDefs)
SpecRequiredDefault == InitRequiredDefault /\ [][NextRequiredDefault]_vars

\* option k has a chain entry that is required and declares a default
requiredWithDefault(k) ==
  \E j \in 1..Len(options[k]) :
    options[k][j].required /\ options[k][j].default # Undefined

\* C16: a definition that is required and declares a default, whatever the
\* default is, leaves a definition error under its name, and every parse()
\* after it returns false with that name in the error map.
C16_RequiredWithDefault ==
  \A k \in DOMAIN options :
    requiredWithDefault(k) =>
      /\ hasErrorIn(normalizationErrors, k)
      /\ justReturned => (returned = "false" /\ hasError(k))

(***************************************************************************)
(* Defaults and types: definitions with a switch list and a name, not      *)
(* required, whose default is or is not a value of the declared type.      *)
(***************************************************************************)
DefaultDefs ==
  {Plain4(flag, ArgArray(flagSwitches), Undefined, d, "boolean", FALSE) :
     d \in {NumV(5), StrV(<<"y","e","s">>), StrV(<<"m","a","y","b","e">>)}}
  \cup {Plain4(port, ArgArray(portSwitches), Undefined, d, "integer", FALSE) :
          d \in {StrV(<<"8">>), BoolV(TRUE)}}
  \cup {Plain4(title, ArgArray(titleSwitches), Undefined, NumV(0), "string", FALSE)}

DefaultTokens == { <<"-","f","=","1">>, <<"-","p","=","2">> }

InitDefault == InitWith(TokenLists(DefaultTokens, MaxArgs), {EmptyMap}, {DefaultWords})
NextDefault == NextWith(DefaultDefs)
SpecDefault == InitDefault /\ [][NextDefault]_vars

\* the default d, when one is supplied, is a value of the type or a string
\* that converts to one
satisfiesType(type, d) ==
  CASE d = Undefined -> TRUE
    [] type = "boolean" ->
         \/ d.t = "boolean"
         \/ d.t = "string" /\ (InIgnoringCase(parserOptions.truthy, d.v)
                               \/ InIgnoringCase(parserOptions.falsey, d.v))
    [] type = "integer" -> d.t = "number" \/ (d.t = "string" /\ IsNumeral(d.v))
    [] type = "string" -> d.t = "string"
    [] type = "list" ->
         \/ d.t = "string"
         \/ d.t = "object" /\ \A i \in 1..Len(d.v) : d.v[i].t = "string"
    [] OTHER -> FALSE

\* C17: for definitions with no other violation, addOption has recorded a
\* definition error under a name exactly when a definition of that name has
\* a default that is no value of its type and no string that converts to one.
C17_DefaultOfType ==
  \A k \in DOMAIN options :
    hasErrorIn(normalizationErrors, k)
      <=> \E j \in 1..Len(options[k]) :
            ~satisfiesType(options[k][j].type, options[k][j].default)

(***************************************************************************)
(* Adding definitions after a parse.                                       *)
(***************************************************************************)
\* the step is a call of addOption
addsOption == optionSequence' # optionSequence

\* a parse() has completed on this Parser
hasParsed == returned \in {"true", "false"}

\* C18: an addOption called after a parse() has completed starts a new
\* cycle before it returns, and one called before the first parse() starts
\* none.
C18_ReparseOnAdd ==
  [][addsOption => pc' = IF hasParsed THEN "parse" ELSE "idle"]_vars

(***************************************************************************)
(* Repeated parses: two positional options, an integer option bound to the *)
(* environment variable E, an option with a validator and handlers, and a  *)
(* required option with a default, which is a definition error.            *)
(***************************************************************************)
RepeatDefs ==
  {Positional(files), Positional(inputs),
   Plain4(port, ArgArray(portSwitches), StrV(EnvE), NumV(8), "integer", FALSE),
   OptionsDef(alpha, ArgArray(alphaSwitches), Undefined, Undefined, "string", FALSE,
              <<Echo(TRUE), Result(ValueX, FALSE)>>, <<"acceptDefined">>),
   Plain4(title, ArgArray(titleSwitches), Undefined, StrV(<<"d">>), "string", TRUE)}

RepeatTokens == { <<"x">>, <<"-","p","=","1">>, <<"-","p","=","z">>, <<"-","a","=","1">> }

RepeatEnvs == { EmptyMap, Put(EmptyMap, EnvE, <<"7">>) }

InitRepeat == InitWith(TokenLists(RepeatTokens, MaxArgs), RepeatEnvs, {DefaultWords})
NextRepeat == NextWith(RepeatDefs)
SpecRepeat == InitRepeat /\ [][NextRepeat]_vars

\* parse() has returned for the second time in a row, no definition added
\* in between
parsedAgain == justReturned /\ lastCycle # NoCycle

\* C19: a parse() called right after another, with no definition added in
\* between, returns the same boolean and leaves a value map and an error map
\* equal to the ones of the parse() before.
C19_Idempotent ==
  parsedAgain =>
    /\ returned = lastCycle.returned
    /\ values = lastCycle.args
    /\ errorValues = lastCycle.errors

\* both parses resolved a value from the environment and one from a handler
C19_Witness ==
  /\ parsedAgain
  /\ returned = "true"
  /\ HasOwn(values, port) /\ values[port] = NumV(7)
  /\ HasOwn(values, alpha) /\ values[alpha] = ValueX
  /\ lastCycle.args = values

\* the error map has an entry
anyError(e) == ~e.null /\ DOMAIN e.m # {}

\* C20: when the error map has an entry after the conversion of the raw
\* values (from a definition, the structural check, the scan or the
\* conversion), the raw value map is set to null, no validator and no handler
\* is called, and the cycle ends with the raw value map null, the value map
\* empty and parse() returning false.
C20_DiscardOnError ==
  [][/\ (pc = "coerce" /\ anyError(errorValues')) =>
          /\ normalizedValues' = Null
          /\ pc' = "freeze"
     /\ (pc = "freeze" /\ normalizedValues.null) =>
          /\ normalizedValues' = Null
          /\ values' = EmptyMap
          /\ validatorCalls' = EmptyMap /\ handlerCalls' = EmptyMap
          /\ returned' = "false"]_vars

\* parse() returned with a conversion error of one option; the token value
\* of another option is exposed nowhere
C20_Witness ==
  /\ justReturned
  /\ parserOptions.argv = << <<"-","p","=","z">>, <<"-","a","=","1">> >>
  /\ HasOwn(options, port) /\ HasOwn(options, alpha)
  /\ hasError(port)
  /\ errorValues.m[port].kind = "Could not parse integer argument"
  /\ normalizedValues = Null
  /\ values = EmptyMap
  /\ returned = "false"

(***************************************************************************)
(* Maps in the hands of a caller: a list option with a default, a string   *)
(* option, and a caller that reads `args` and `errors` after a parse() and *)
(* assigns to what it read.                                                *)
(***************************************************************************)
\* the caller reads `args` and `errors` of a Parser whose parse() has returned
ReadMaps ==
  /\ pc = "idle"
  /\ returned \in {"true", "false"}
  /\ held' = [has |-> TRUE, live |-> TRUE, args |-> values, errors |-> errorValues,
              frozen |-> frozen, wrote |-> FALSE]
  /\ UNCHANGED <<parserOptions, optionsDef, lastCycle, frozen, validatorCalls,
                 handlerCalls, options, optionKeys, optionSequence,
                 normalizationErrors, errorValues, isParsed, hasNewOptions,
                 normalizedValues, values, pc, argIdx, returned>>

\* an assignment to a property of a frozen object and a push to a frozen
\* array leave the object as it is
assigned(h, w) ==
  CASE w.kind = "args" ->
         [h EXCEPT !.wrote = TRUE,
                   !.args = IF h.frozen.values THEN @ ELSE Put(@, w.key, w.value)]
    [] w.kind = "errors" ->
         [h EXCEPT !.wrote = TRUE,
                   !.errors = IF h.errors.null \/ h.frozen.errorValues THEN @
                              ELSE SetIn(@, w.key, w.value)]
    [] OTHER ->
         [h EXCEPT !.wrote = TRUE,
                   !.args = IF HasOwn(@, w.key) /\ @[w.key].t = "object"
                               /\ ~h.frozen.members
                            THEN Put(@, w.key, Push(@[w.key], w.value)) ELSE @]

\* the caller assigns to a map it holds (`held.args[key] = value`,
\* `held.errors[key] = value`) or pushes to a list in it
WriteHeld(w) ==
  /\ pc = "idle"
  /\ held.has /\ ~held.wrote
  /\ held' = assigned(held, w)
  /\ values' = IF held.live THEN held'.args ELSE values
  /\ errorValues' = IF held.live THEN held'.errors ELSE errorValues
  /\ UNCHANGED <<parserOptions, optionsDef, lastCycle, frozen, validatorCalls,
                 handlerCalls, options, optionKeys, optionSequence,
                 normalizationErrors, isParsed, hasNewOptions, normalizedValues,
                 pc, argIdx, returned>>

HeldWrites ==
  {[kind |-> "args", key |-> alpha, value |-> ValueX],
   [kind |-> "errors", key |-> alpha, value |-> Plain("caller")],
   [kind |-> "member", key |-> tags, value |-> ValueX]}

ImmutableDefs ==
  {Plain4(tags, ArgArray(tagsSwitches), Undefined, ArrV(<<StrV(<<"d">>)>>), "list", FALSE),
   Plain4(alpha, ArgArray(alphaSwitches), Undefined, Undefined, "string", FALSE)}

ImmutableTokens == { <<"-","l","=","1">>, <<"-","a","=","1">> }

InitImmutable == InitWith(TokenLists(ImmutableTokens, MaxArgs), {EmptyMap}, {DefaultWords})
NextImmutable ==
  \/ NextWith(ImmutableDefs)
  \/ ReadMaps
  \/ \E w \in HeldWrites : WriteHeld(w)
SpecImmutable == InitImmutable /\ [][NextImmutable]_vars

\* the step is the caller reading the maps of the Parser anew
readsMaps == held'.live /\ ~held.live

\* C21: the value map and the error map a caller got from a parse() that has
\* returned never change their contents afterwards: no assignment by the
\* caller, no addOption and no step of a later parse() changes them, and
\* while a later cycle runs the maps the Parser writes to are other maps
\* than the ones the caller holds.
C21_MapsImmutable ==
  [][/\ (held.has /\ ~readsMaps) =>
          /\ held'.args = held.args
          /\ held'.errors = held.errors
     /\ (held.has /\ pc # "idle") => ~held.live]_vars

\* the caller holds the error map of a failed parse() and has assigned to
\* what it holds; an option was added since and the parse() after it
\* returned true with other maps
C21_Witness ==
  /\ justReturned
  /\ held.has /\ held.wrote /\ ~held.live
  /\ hasErrorIn(held.errors, <<"-","a">>)
  /\ held.args = EmptyMap
  /\ returned = "true"
  /\ errorValues.null
  /\ HasOwn(values, alpha) /\ HasOwn(values, tags)

(***************************************************************************)
(* Errors that are thrown: a definition whose type is none of the four     *)
(* tags, a positional option declared with the type string, a positional   *)
(* option and a string option with no violation.                           *)
(***************************************************************************)
badtype == "badtype"

ThrownDefs ==
  {Plain4(port, ArgArray(portSwitches), Undefined, Undefined, badtype, FALSE),
   Plain4(files, ArgString(positional), Undefined, Undefined, "string", FALSE),
   Positional(inputs),
   Plain4(title, ArgArray(titleSwitches), Undefined, Undefined, "string", FALSE)}

\* "o" occurs in the word 'positional'
ThrownTokens == { <<"x">>, <<"o","=","v">>, <<"-","t","=","1">> }

InitThrown == InitWith(TokenLists(ThrownTokens, MaxArgs), {EmptyMap}, {DefaultWords})
NextThrown == NextWith(ThrownDefs)
SpecThrown == InitThrown /\ [][NextThrown]_vars

\* a declaration of the name was malformed: its type was no type tag, or it
\* is positional and no list
malformed(k) ==
  \/ Len(options[k]) = 0
  \/ \E j \in 1..Len(options[k]) :
       ArgIs(options[k][j].arg, positional) /\ options[k][j].type # "list"

\* C22: no addOption and no parse() throws, and when a malformed declaration
\* was passed to addOption, every parse() after it returns false with an
\* entry in the error map.
C22_ErrorsCollected ==
  /\ returned # "threw"
  /\ justReturned =>
       \A k \in DOMAIN options : malformed(k) => (returned = "false" /\ hasErrors)

(***************************************************************************)
(* Handler lists of several chain entries.                                 *)
(***************************************************************************)
\* the handlers of the list that return a value with continue=true
continuing(handlers) == {i \in 1..Len(handlers) : returnsResult(handlers[i], TRUE)}

\* the value that is current when the list ends, the last handler that
\* returned a value having continued: the value of that handler
currentAfter(handlers, calls) ==
  resultValue(handlers[Last(continuing(handlers))], calls[Last(continuing(handlers))])

\* every handler of the chain entries of option k after entry j defers
laterAllDefer(k, j) ==
  \A l \in (j + 1)..Len(options[k]) :
    \A i \in 1..Len(options[k][l].handler) : defers(options[k][l].handler[i])

\* C23: for an option with several chain entries, when the handlers of an
\* entry ran to the end of their list and one of them returned a value with
\* continue=true, the first handler of the next entry is called with the
\* value that was current at the end of the list, and that value is the one
\* stored for the option when every handler of the later entries defers.
C23_CarriesOverEntries ==
  pc = "freeze" =>
    \A k \in DOMAIN handlerCalls :
      \A j \in 1..(Len(options[k]) - 1) :
        LET handlers == options[k][j].handler
            calls == handlerCalls[k][j]
        IN (/\ Len(handlerCalls[k]) > j
            /\ Len(calls) = Len(handlers)
            /\ continuing(handlers) # {}) =>
             /\ Len(handlerCalls[k][j + 1]) > 0 =>
                  handlerCalls[k][j + 1][1] = currentAfter(handlers, calls)
             /\ laterAllDefer(k, j) =>
                  HasOwn(values, k) /\ values[k] = currentAfter(handlers, calls)

(***************************************************************************)
(* Validators that accept.                                                 *)
(***************************************************************************)
\* validateOptionValues() has run in this cycle
validated == pc \in {"handle", "freeze"} /\ ~normalizedValues.null

\* no validator returned a rejection message in this cycle
noneRejected == \A k \in DOMAIN errorValues.m : errorValues.m[k].kind # "validator"

\* C24: in a cycle in which no validator rejects, validation goes through
\* every option name and every chain entry, whatever validators accept on
\* the way: a required chain entry with no value leaves an error under its
\* name, and for a name with no such entry the validators of each of its
\* chain entries are called.
C24_AcceptContinues ==
  (validated /\ noneRejected) =>
    \A k \in DOMAIN options :
      IF \E j \in 1..Len(options[k]) : requiredFails(options[k][j], normalizedValues.m)
      THEN hasError(k)
      ELSE \A j \in 1..Len(options[k]) :
             Len(options[k][j].validator) > 0 =>
               /\ HasOwn(validatorCalls, k)
               /\ Len(validatorCalls[k]) >= j
               /\ Len(validatorCalls[k][j]) > 0

(***************************************************************************)
(* The stages of a cycle.                                                  *)
(***************************************************************************)
\* the step calls a validator, a handler
callsValidator == validatorCalls' # validatorCalls /\ validatorCalls' # EmptyMap
callsHandler == handlerCalls' # handlerCalls /\ handlerCalls' # EmptyMap

ProtocolDefs ==
  {Handled(alpha, alphaSwitches, <<OtherSymbol>>),
   Handled(alpha, alphaSwitches, <<BoxedSymbol>>),
   Handled(alpha, alphaSwitches, <<Defer, BoxedSymbol, Result(ValueX, FALSE)>>),
   Plain4(beta, ArgArray(betaSwitches), Undefined, Undefined, "string", FALSE)}

InitProtocol == InitWith(TokenLists(HandlerTokens, MaxArgs), {EmptyMap}, {DefaultWords})
NextProtocol == NextWith(ProtocolDefs)
SpecProtocol == InitProtocol /\ [][NextProtocol]_vars

\* the handler returns neither the defer signal nor a result
unrecognized(h) == ~defers(h) /\ h.kind \notin {"result", "echo"}

\* a handler of option k that was called in this cycle returned no
\* recognized shape
brokeProtocol(k) ==
  \E j \in ranEntries(k) :
    \E i \in 1..Len(handlerCalls[k][j]) : unrecognized(handlerListsOf(options[k])[j][i])

\* C26: when a handler of an option returns neither the defer signal nor a
\* result, the error map gets a handler-protocol error under the name of
\* that option and under no other name, no value is stored for the option,
\* every other option has its final value stored, and parse() returns false.
C26_ProtocolError ==
  ((pc = "freeze" \/ justReturned) /\ handlerCalls # EmptyMap) =>
    \A k \in DOMAIN handlerCalls :
      IF brokeProtocol(k)
      THEN /\ hasError(k)
           /\ errorValues.m[k] = unknownHandlerReturn(k)
           /\ ~HasOwn(values, k)
           /\ justReturned => returned = "false"
      ELSE /\ ~hasError(k)
           /\ HasOwn(values, k)

(***************************************************************************)
(* The final value of every option.                                        *)
(***************************************************************************)
\* C27: after a parse() that returned true, the value map has an entry,
\* which may hold undefined, for every option name registered: for one with
\* no handler, for one whose handlers all defer, and for one whose handler
\* stored a value.
C27_EveryNameHasEntry ==
  (justReturned /\ returned = "true") =>
    /\ \A i \in 1..Len(optionSequence) : HasOwn(values, optionSequence[i])
    /\ \A k \in DOMAIN options : HasOwn(values, k)

\* parse() returned true for an option whose handlers all defer, which has
\* the token value, and an option with no handler and no value, which has
\* an entry that holds undefined
C27_Witness ==
  /\ justReturned /\ returned = "true"
  /\ HasOwn(options, alpha) /\ HasOwn(options, beta)
  /\ options[alpha][1].handler = <<Defer, Defer>>
  /\ options[beta][1].handler = << >>
  /\ HasOwn(values, alpha) /\ values[alpha] = StrV(<<"1">>)
  /\ HasOwn(values, beta) /\ values[beta] = Undefined

(***************************************************************************)
(* Inline values: a string, a list and a boolean option, and tokens whose  *)
(* inline value has no "=", one "=", or is empty.                          *)
(***************************************************************************)
InlineDefs ==
  {Plain4(title, ArgArray(titleSwitches), Undefined, Undefined, "string", FALSE),
   Plain4(tags, ArgArray(tagsSwitches), Undefined, Undefined, "list", FALSE),
   Plain4(flag, ArgArray(flagSwitches), Undefined, Undefined, "boolean", FALSE)}

InlineTokens ==
  { <<"-","t","=","a">>, <<"-","t","=","a","=","b">>, <<"-","l","=","a","=","b">>,
    <<"-","f","=","y">>, <<"-","t","=">> }

InitInline == InitWith(TokenLists(InlineTokens, MaxArgs), {EmptyMap}, {DefaultWords})
NextInline == NextWith(InlineDefs)
SpecInline == InitInline /\ [][NextInline]_vars

\* C28: a token with an "=" in it is split at its first "=": the part before
\* it is the switch the options are matched by, and all that follows the
\* first "=", any further "=" included, is the value the matched option
\* takes.
C28_SplitAtFirstEq ==
  [][\A k \in DOMAIN options :
       (matchesHere(k) /\ FirstEq(currentToken) # 0) =>
         /\ ~normalizedValues'.null
         /\ HasOwn(normalizedValues'.m, k)
         /\ lastStored(normalizedValues'.m, k) = tokenValue]_vars

(***************************************************************************)
(* Chains of definitions: three definitions of one name that differ in     *)
(* switch, environment binding, default and type, one of them required     *)
(* with a validator and a handler, added in any order.                     *)
(***************************************************************************)
ChainDefs ==
  {Plain4(port, ArgArray(<< <<"-","p">> >>), Undefined, Undefined, "integer", FALSE),
   Plain4(port, ArgArray(otherSwitches), StrV(EnvE), StrV(<<"d">>), "string", FALSE),
   OptionsDef(port, ArgArray(<< <<"-","r">> >>), Undefined, Undefined, "boolean", TRUE,
              <<Result(ValueX, FALSE)>>, <<"defer">>)}

ChainTokens == { <<"-","p","=","1">>, <<"-","q","=","2">>, <<"-","r","=","y">> }

InitChain == InitWith(TokenLists(ChainTokens, MaxArgs), SourceEnvs, {DefaultWords})
NextChain == NextWith(ChainDefs)
SpecChain == InitChain /\ [][NextChain]_vars

\* the value is of the kind the conversion to the type leaves
convertedTo(type, x) ==
  CASE type = "integer" -> x.t = "number"
    [] type = "boolean" -> x.t = "boolean"
    [] OTHER -> x.t = "string"

TypedDefs ==
  {Plain4(flag, ArgArray(flagSwitches), StrV(EnvE), Undefined, "boolean", FALSE),
   Plain4(port, ArgArray(portSwitches), Undefined, StrV(<<"8">>), "integer", FALSE),
   Plain4(title, ArgArray(titleSwitches), Undefined, StrV(<<"d">>), "string", FALSE),
   Plain4(tags, ArgArray(tagsSwitches), Undefined, StrV(<<"d">>), "list", FALSE)}

TypedTokens ==
  { <<"-","f">>, <<"-","p","=","1">>, <<"-","t","=","v">>, <<"-","l","=","a">>, <<"-","l">> }

TypedEnvs == { EmptyMap, Put(EmptyMap, EnvE, <<"y","e","s">>) }

InitTyped == InitWith(TokenLists(TypedTokens, MaxArgs), TypedEnvs, {DefaultWords})
NextTyped == NextWith(TypedDefs)
SpecTyped == InitTyped /\ [][NextTyped]_vars

\* x is a value of the declared type
ofType(type, x) ==
  CASE type = "boolean" -> x.t = "boolean"
    [] type = "integer" -> x.t = "number"
    [] type = "string" -> x.t = "string"
    [] type = "list" -> x.t = "object" /\ \A i \in 1..Len(x.v) : x.v[i].t = "string"
    [] OTHER -> FALSE

\* no chain entry of option k declares a handler
noHandlers(k) == \A j \in 1..Len(options[k]) : Len(options[k][j].handler) = 0

\* C30: after a parse() that returned true, the value of every option with
\* no declared handler is absent (no entry, or undefined) or a value of the
\* declared type of the option: a boolean, a number, a string, or a list
\* whose elements are all strings, whether it came from a token, from the
\* environment or from the default.
C30_TypeSafety ==
  (justReturned /\ returned = "true") =>
    \A k \in DOMAIN options :
      noHandlers(k) =>
        \/ ~HasOwn(values, k)
        \/ values[k] = Undefined
        \/ ofType(options[k][1].type, values[k])

=============================================================================
